---- MODULE Spec2Model ----
(***************************************************************************)
(* Authentication / session lifecycle and hierarchical RBAC of the         *)
(* collaboration platform.                                                 *)
(*                                                                         *)
(* The relational store is the shared state.  Every request handler is a   *)
(* sequence of database calls; each call is one atomic step of the store   *)
(* and requests interleave between their calls (spec section 5).           *)
(*                                                                         *)
(*   SpecAuth : login / refresh / logout / revoke-all / ban, REST layer    *)
(*   SpecRbac : workspace and project membership, transactions             *)
(*   SpecTasks: createTask / updateTask, assignments and notifications     *)
(*   SpecTransaction: db.transaction, statement by statement               *)
(*   SpecProvision  : getProject, query by query, under concurrency        *)
(*   SpecRevokeAll  : revoke-all-sessions next to a refresh                *)
(***************************************************************************)
EXTENDS Integers, Sequences, FiniteSets, Bags, TLC

(***************************************************************************)
(* Bounds of the model.                                                    *)
(***************************************************************************)
MaxTicks == 1            \* number of clock advances
MaxDevices == 2          \* rows of user_devices
MaxWorkspaces == 2       \* workspaces rows ever inserted
MaxProjects == 1         \* projects rows ever inserted
MaxTasks == 1            \* tasks rows ever inserted
MaxNotifications == 3    \* notifications rows ever committed

\* request slots: two requests can be in flight at the same time
Procs == {"p1", "p2"}

(***************************************************************************)
(* Program constants.                                                      *)
(***************************************************************************)
AccessTokenTtl == 900            \* expiresIn: '15m', in seconds
RefreshTokenTtl == 604800        \* expiresIn: '7d', in seconds

None == <<>>
Some(x) == <<x>>

Users == {"u1", "u2"}
Admin == "admin"
AllUsers == Users \cup {Admin}

EmailOf == [u \in AllUsers |-> IF u = "u1" THEN "u1@x.io"
                               ELSE IF u = "u2" THEN "u2@x.io"
                               ELSE "admin@x.io"]
PasswordOf == [u \in AllUsers |-> IF u = "u1" THEN "pw1"
                                  ELSE IF u = "u2" THEN "pw2"
                                  ELSE "pwadmin"]

\* what a client may type into the login form
EmailInputs == {"", " U1@x.io ", "u1@x.io", "u2@x.io", "nobody@x.io"}
PasswordInputs == {"", "pw1", "pw2"}

\* email.toLowerCase()
ToLowerCase(e) == IF e = " U1@x.io " THEN " u1@x.io " ELSE e

\* email.trim()
TrimEmail(e) == IF e = " U1@x.io " THEN "U1@x.io"
                ELSE IF e = " u1@x.io " THEN "u1@x.io"
                ELSE e

\* email.trim().toLowerCase()
CleanEmail(e) ==
    LET t == TrimEmail(e) IN IF t = "U1@x.io" THEN "u1@x.io" ELSE t

\* bcrypt: the stored value is never the password itself
hashPassword(pw) == [bcrypt |-> pw]
verifyPassword(pw, h) == h = hashPassword(pw)

(***************************************************************************)
(* Tokens.  jwt.sign is deterministic (HS256): a token is a function of    *)
(* its payload, the secret and the issue time in whole seconds (iat).      *)
(***************************************************************************)
signAccess(payload, t) ==
    [userId |-> payload.userId, email |-> payload.email,
     globalStatus |-> payload.globalStatus, type |-> "access",
     iat |-> t, exp |-> t + AccessTokenTtl, secret |-> "jwtSecret"]

signRefresh(payload, t) ==
    [userId |-> payload.userId, email |-> "",
     globalStatus |-> "", type |-> "refresh",
     iat |-> t, exp |-> t + RefreshTokenTtl, secret |-> "jwtRefreshSecret"]

generateTokens(payload, t) ==
    [accessToken |-> signAccess(payload, t),
     refreshToken |-> signRefresh(payload, t)]

\* a token not signed by this server
ForgedToken ==
    [userId |-> "u1", email |-> "u1@x.io", globalStatus |-> "ADMIN",
     type |-> "access", iat |-> 0, exp |-> RefreshTokenTtl * 4,
     secret |-> "attacker"]

\* jwt.verify: signature first, then expiry.  TokenExpiredError is a
\* subclass of JsonWebTokenError, and the wrapper tests JsonWebTokenError
\* first, so both failures surface with the 'Invalid ...' message.
jwtVerify(token, secret, t) ==
    IF token.secret # secret THEN "JsonWebTokenError"
    ELSE IF t >= token.exp THEN "TokenExpiredError"
    ELSE "ok"

verifyAccessToken(token, t) ==
    LET r == jwtVerify(token, "jwtSecret", t)
    IN  IF r = "ok" THEN [ok |-> TRUE, error |-> ""]
        ELSE IF r \in {"JsonWebTokenError", "TokenExpiredError"}
             THEN [ok |-> FALSE, error |-> "Invalid access token"]
        ELSE [ok |-> FALSE, error |-> "Access token expired"]

verifyRefreshToken(token, t) ==
    LET r == jwtVerify(token, "jwtRefreshSecret", t)
    IN  IF r = "ok" THEN [ok |-> TRUE, error |-> ""]
        ELSE IF r \in {"JsonWebTokenError", "TokenExpiredError"}
             THEN [ok |-> FALSE, error |-> "Invalid refresh token"]
        ELSE [ok |-> FALSE, error |-> "Refresh token expired"]

\* sha256 of the raw token
hashRefreshToken(token) == [sha256 |-> token]

(***************************************************************************)
(* State.                                                                  *)
(***************************************************************************)
VARIABLES
    users,          \* table users: id -> row
    devices,        \* table user_devices: sequence of rows, index = id
    now,            \* wall clock, whole seconds
    ticks,          \* number of clock advances so far
    pc,             \* per request slot: the next database call of its handler
    loc,            \* per request slot: the handler's local variables
    resp,           \* the HTTP response sent by the last step (if any)
    revokedHashes,  \* a hash h for which revokeUserDevice(h) has completed
    rotatedHashes   \* a hash overwritten by updateDeviceRefreshToken

authVars == <<users, devices, now, ticks, pc, loc, resp,
              revokedHashes, rotatedHashes>>

VARIABLES
    workspaces,         \* table workspaces
    workspace_members,  \* table workspace_members
    projects,           \* table projects
    project_members,    \* table project_members
    nextId,             \* ids handed out so far, per table
    call,               \* per request slot: the service call in progress
    answer              \* what the last step returned to its caller (if any)

rbacVars == <<workspaces, workspace_members, projects, project_members,
              nextId, call, answer>>

VARIABLES
    tasks,              \* table tasks
    task_assignments,   \* table task_assignments
    notifications,      \* table notifications, a bag of rows
    nextTaskId,         \* task ids handed out so far
    tcall               \* per request slot: the TaskService call in progress

taskVars == <<tasks, task_assignments, notifications, nextTaskId, tcall>>

NoLoc == [user |-> None, refreshToken |-> None, device |-> 0]

Reply(p, op, status, message) ==
    [proc |-> p, op |-> op, status |-> status, message |-> message,
     tokens |-> None, identity |-> None, presented |-> None, count |-> 0]

NoResp == Reply("", "", 0, "")

InitAuth ==
    /\ users = [u \in AllUsers |->
                  [email |-> EmailOf[u],
                   password_hash |-> hashPassword(PasswordOf[u]),
                   global_status |-> IF u = Admin THEN "ADMIN" ELSE "ACTIVE",
                   last_login |-> -1]]
    /\ devices = <<>>
    /\ now = 0
    /\ ticks = 0
    /\ pc = [p \in Procs |-> "idle"]
    /\ loc = [p \in Procs |-> NoLoc]
    /\ resp = NoResp
    /\ revokedHashes = {}
    /\ rotatedHashes = {}

DeviceIds == DOMAIN devices

\* a request slot with no service call in progress
NoCall ==
    [at |-> "idle", workspaceId |-> 0, projectId |-> 0, userId |-> "",
     role |-> "", requesterId |-> "", name |-> "", inserted |-> <<>>,
     log |-> <<>>, caught |-> None, thrown |-> None, released |-> 0]

NoAnswer == [op |-> "", args |-> <<>>, result |-> None]

InitRbac ==
    /\ workspaces = {}
    /\ workspace_members = {}
    /\ projects = {}
    /\ project_members = {}
    /\ nextId = [workspaces |-> 1, projects |-> 1]
    /\ call = [p \in Procs |-> NoCall]
    /\ answer = NoAnswer

\* a TaskService call: its input, what it read before the transaction, the
\* writes made on the transaction's connection, and whether a statement
\* failed on that connection
NoTaskCall ==
    [at |-> "idle", taskId |-> 0, projectId |-> 0, userId |-> "",
     status |-> None, assignedToIds |-> None, currentStatus |-> "",
     prior |-> "", task |-> None, assignments |-> None, notify |-> {},
     aborted |-> FALSE, committed |-> FALSE]

InitTasks ==
    /\ tasks = {}
    /\ task_assignments = {}
    /\ notifications = EmptyBag
    /\ nextTaskId = 1
    /\ tcall = [p \in Procs |-> NoTaskCall]

(***************************************************************************)
(* AuthService                                                             *)
(***************************************************************************)
\* variant that does not look at global_status
validateUserCredentialsIgnoringBan(email, password) ==
    LET rows == {u \in AllUsers : users[u].email = ToLowerCase(email)}
    IN  IF rows = {} THEN None
        ELSE LET u == CHOOSE x \in rows : TRUE
             IN  IF ~verifyPassword(password, users[u].password_hash)
                 THEN None
                 ELSE Some([userId |-> u, email |-> users[u].email,
                            globalStatus |-> users[u].global_status])

\* SELECT ... FROM users WHERE email = lower($1); null unless the row
\* exists, is not BANNED and the password verifies
validateUserCredentials(email, password) ==
    LET rows == {u \in AllUsers : users[u].email = ToLowerCase(email)}
    IN  IF rows = {} THEN None
        ELSE LET u == CHOOSE x \in rows : TRUE
             IN  IF users[u].global_status = "BANNED" THEN None
                 ELSE IF ~verifyPassword(password, users[u].password_hash)
                      THEN None
                 ELSE Some([userId |-> u, email |-> users[u].email,
                            globalStatus |-> users[u].global_status])

\* variant whose WHERE clause lacks is_revoked = false
ActiveRowsIgnoringRevoked(h) ==
    {d \in DeviceIds : devices[d].refresh_token_hash = h}

\* rows the SELECT of validateRefreshToken returns:
\* WHERE refresh_token_hash = $1 AND is_revoked = false
ActiveRows(h) ==
    {d \in DeviceIds : devices[d].refresh_token_hash = h
                       /\ devices[d].is_revoked = FALSE}

\* result of validateRefreshToken when the query returns row d first
validateRow(d) ==
    LET u == devices[d].user_id
    IN  IF users[u].global_status = "BANNED" THEN None
        ELSE Some([device |-> d,
                   user |-> [userId |-> u, email |-> users[u].email,
                             globalStatus |-> users[u].global_status]])

\* the values validateRefreshToken(h) can return: the query has no ORDER BY,
\* so rows[0] is any of the matching rows
validateRefreshToken(h) ==
    IF ActiveRows(h) = {} THEN {None}
    ELSE {validateRow(d) : d \in ActiveRows(h)}

\* variant that flips is_revoked instead of setting it
revokeUserDeviceToggling(h) ==
    [d \in DeviceIds |->
        IF devices[d].refresh_token_hash = h
        THEN [devices[d] EXCEPT !.is_revoked = ~devices[d].is_revoked]
        ELSE devices[d]]

\* UPDATE user_devices SET is_revoked = true WHERE refresh_token_hash = $1
revokeUserDevice(h) ==
    [d \in DeviceIds |->
        IF devices[d].refresh_token_hash = h
        THEN [devices[d] EXCEPT !.is_revoked = TRUE]
        ELSE devices[d]]

\* variant whose WHERE clause lacks the refresh_token_hash != $2 term
revokeAllRowsIncludingCurrent(u, exclude) ==
    {d \in DeviceIds : devices[d].user_id = u}

\* rows matched by revokeAllUserDevices:
\* WHERE user_id = $1 [AND refresh_token_hash != $2]
revokeAllRows(u, exclude) ==
    {d \in DeviceIds :
        /\ devices[d].user_id = u
        /\ (exclude = None \/ devices[d].refresh_token_hash # exclude[1])}

\* UPDATE user_devices SET is_revoked = true WHERE ...
revokeAllUserDevices(u, exclude) ==
    [d \in DeviceIds |->
        IF d \in revokeAllRows(u, exclude)
        THEN [devices[d] EXCEPT !.is_revoked = TRUE]
        ELSE devices[d]]

\* UPDATE user_devices SET refresh_token_hash = $1 WHERE id = $2
updateDeviceRefreshToken(d, h) ==
    [devices EXCEPT ![d].refresh_token_hash = h]

\* variant that inserts the row already revoked
createUserDeviceRevoked(u, h) ==
    Append(devices, [user_id |-> u, refresh_token_hash |-> h,
                     is_revoked |-> TRUE])

\* INSERT INTO user_devices (user_id, refresh_token_hash, ...)
createUserDevice(u, h) ==
    Append(devices, [user_id |-> u, refresh_token_hash |-> h,
                     is_revoked |-> FALSE])

(***************************************************************************)
(* middleware/auth.ts                                                      *)
(***************************************************************************)
PublicPaths == {"graphql:Login", "/api/auth/login"}
PathInputs == PublicPaths \cup {"/api/auth/sessions"}

AuthResult(next, status, message, identity) ==
    [next |-> next, status |-> status, message |-> message,
     identity |-> identity]

\* variant that trusts the token's claims and does not read the users table
authenticateTokenTrustingClaims(path, cookie, header) ==
    IF path \in PublicPaths THEN AuthResult(TRUE, 0, "", None)
    ELSE
    LET token == IF cookie # None THEN cookie
                 ELSE IF header # None THEN header
                 ELSE None
    IN  IF token = None
        THEN AuthResult(FALSE, 401, "Authentication token required", None)
        ELSE
        LET v == verifyAccessToken(token[1], now)
            decoded == token[1]
        IN  IF ~v.ok
            THEN IF v.error = "Invalid access token"
                 THEN AuthResult(FALSE, 401, "Invalid token", None)
                 ELSE AuthResult(FALSE, 401, "Token expired", None)
            ELSE AuthResult(TRUE, 0, "",
                     Some([userId |-> decoded.userId,
                           email |-> decoded.email,
                           globalStatus |-> decoded.globalStatus]))

\* authenticateToken: cookie first, then the Authorization header; the
\* token is verified and the user's status re-read from the users table
authenticateToken(path, cookie, header) ==
    IF path \in PublicPaths THEN AuthResult(TRUE, 0, "", None)
    ELSE
    LET token == IF cookie # None THEN cookie
                 ELSE IF header # None THEN header
                 ELSE None
    IN  IF token = None
        THEN AuthResult(FALSE, 401, "Authentication token required", None)
        ELSE
        LET v == verifyAccessToken(token[1], now)
            decoded == token[1]
        IN  IF ~v.ok
            THEN IF v.error = "Invalid access token"
                 THEN AuthResult(FALSE, 401, "Invalid token", None)
                 ELSE AuthResult(FALSE, 401, "Token expired", None)
            ELSE IF decoded.userId \notin DOMAIN users
            THEN AuthResult(FALSE, 401, "User not found", None)
            ELSE IF users[decoded.userId].global_status = "BANNED"
            THEN AuthResult(FALSE, 403, "Account has been suspended", None)
            ELSE AuthResult(TRUE, 0, "",
                     Some([userId |-> decoded.userId,
                           email |-> decoded.email,
                           globalStatus |-> decoded.globalStatus]))

(***************************************************************************)
(* What a client can send.  Every refresh token handed out has had its     *)
(* hash stored in user_devices (by login or by refresh); the access token  *)
(* of the same pair carries the same user and issue time.  Clients keep    *)
(* the tokens of the stored hashes and of the hashes followed in           *)
(* revokedHashes and rotatedHashes.                                        *)
(***************************************************************************)
StoredHashes == {devices[d].refresh_token_hash : d \in DeviceIds}

\* history: start following h if asked to and nothing is followed yet (at
\* most one hash is followed, any one of them in some behaviour)
Follow(history, follow, h) ==
    IF follow /\ history = {} THEN {h} ELSE history

IssuedRefreshTokens ==
    {h.sha256 : h \in StoredHashes \cup rotatedHashes
                      \cup {x \in revokedHashes : x.sha256 # ForgedToken}}

AccessTokenOf(rt) ==
    signAccess([userId |-> rt.userId, email |-> EmailOf[rt.userId],
                globalStatus |-> "ACTIVE"], rt.iat)

AccessTokenInputs ==
    {None, Some(ForgedToken)}
        \cup {Some(AccessTokenOf(rt)) : rt \in IssuedRefreshTokens}

RefreshTokenInputs ==
    {None, Some(ForgedToken)} \cup {Some(rt) : rt \in IssuedRefreshTokens}

(***************************************************************************)
(* rest/auth.ts: POST /login                                               *)
(* validateUserCredentials, updateLastLogin, generateTokens,               *)
(* createUserDevice.  A rejected request writes nothing.                   *)
(***************************************************************************)
LoginRejected(email, password) ==
    /\ UNCHANGED <<rbacVars, taskVars>>
    /\ UNCHANGED <<users, devices, now, ticks, pc, loc, revokedHashes,
                   rotatedHashes>>
    /\ IF email = "" \/ password = ""
       THEN resp' = Reply("", "login", 400, "Email and password are required")
       ELSE /\ validateUserCredentials(CleanEmail(email), password) = None
            /\ resp' = [Reply("", "login", 401, "Invalid credentials")
                           EXCEPT !.presented =
                               Some([email |-> CleanEmail(email),
                                     password |-> password])]

Login(email, password) ==
    /\ UNCHANGED <<rbacVars, taskVars>>
    /\ email # "" /\ password # ""
    /\ LET user == validateUserCredentials(CleanEmail(email), password)
       IN  /\ user # None
           /\ LET tokens == generateTokens(user[1], now)
              IN  /\ Len(devices) < MaxDevices
                  /\ users' = [users EXCEPT
                         ![user[1].userId].last_login = now]
                  /\ devices' = createUserDevice(user[1].userId,
                         hashRefreshToken(tokens.refreshToken))
                  /\ resp' = [Reply("", "login", 200, "")
                         EXCEPT !.tokens = Some(tokens)]
    /\ UNCHANGED <<now, ticks, pc, loc, revokedHashes, rotatedHashes>>

(***************************************************************************)
(* rest/auth.ts: POST /refresh-token.  Two database calls: the lookup      *)
(* (validateRefreshToken) and the rotation (updateDeviceRefreshToken);     *)
(* other requests run between them.                                        *)
(***************************************************************************)
RefreshRejected(refreshToken) ==
    /\ UNCHANGED <<rbacVars, taskVars>>
    /\ UNCHANGED <<users, devices, now, ticks, pc, loc, revokedHashes,
                   rotatedHashes>>
    /\ IF refreshToken = None
       THEN resp' = Reply("", "refresh", 401, "Refresh token required")
       ELSE IF ~verifyRefreshToken(refreshToken[1], now).ok
       THEN resp' = Reply("", "refresh", 401,
                          verifyRefreshToken(refreshToken[1], now).error)
       ELSE /\ None \in validateRefreshToken(
                            hashRefreshToken(refreshToken[1]))
            /\ resp' = [Reply("", "refresh", 401,
                              "Invalid or expired refresh token")
                           EXCEPT !.presented = refreshToken]

RefreshValidate(p, refreshToken) ==
    /\ UNCHANGED <<rbacVars, taskVars>>
    /\ pc[p] = "idle"
    /\ refreshToken # None
    /\ verifyRefreshToken(refreshToken[1], now).ok
    /\ \E validationResult \in
              validateRefreshToken(hashRefreshToken(refreshToken[1])) :
          /\ validationResult # None
          /\ pc' = [pc EXCEPT ![p] = "refresh:updateDevice"]
          /\ loc' = [loc EXCEPT ![p] =
                [user |-> Some(validationResult[1].user),
                 refreshToken |-> refreshToken,
                 device |-> validationResult[1].device]]
    /\ resp' = NoResp
    /\ UNCHANGED <<users, devices, now, ticks, revokedHashes, rotatedHashes>>

RefreshUpdate(p, follow) ==
    /\ UNCHANGED <<rbacVars, taskVars>>
    /\ pc[p] = "refresh:updateDevice"
    /\ LET user == loc[p].user[1]
           newTokens == generateTokens(user, now)
           newHash == hashRefreshToken(newTokens.refreshToken)
           d == loc[p].device
       IN  /\ devices' = updateDeviceRefreshToken(d, newHash)
           /\ rotatedHashes' = Follow(rotatedHashes, follow,
                                      devices[d].refresh_token_hash)
           /\ resp' = [Reply(p, "refresh", 200, "")
                          EXCEPT !.tokens = Some(newTokens),
                                 !.presented = loc[p].refreshToken]
    /\ pc' = [pc EXCEPT ![p] = "idle"]
    /\ loc' = [loc EXCEPT ![p] = NoLoc]
    /\ UNCHANGED <<users, now, ticks, revokedHashes>>

(***************************************************************************)
(* Routes behind authenticateToken.                                        *)
(***************************************************************************)
\* the middleware in front of a route: rejects, or calls next
Authenticate(path, cookie, header) ==
    /\ UNCHANGED <<rbacVars, taskVars>>
    /\ UNCHANGED <<users, devices, now, ticks, pc, loc, revokedHashes,
                   rotatedHashes>>
    /\ LET a == authenticateToken(path, cookie, header)
       IN  IF ~a.next
           THEN resp' = Reply("", "authenticateToken", a.status, a.message)
           ELSE resp' = [Reply("", "authenticateToken", 200, "next")
                            EXCEPT !.identity = a.identity]

\* POST /logout: authenticateToken, then revokeUserDevice
Logout(cookie, header, refreshCookie, follow) ==
    /\ UNCHANGED <<rbacVars, taskVars>>
    /\ authenticateToken("/api/auth/logout", cookie, header).next
    /\ IF refreshCookie # None
       THEN LET h == hashRefreshToken(refreshCookie[1])
            IN  /\ devices' = revokeUserDevice(h)
                /\ revokedHashes' = Follow(revokedHashes, follow, h)
       ELSE UNCHANGED <<devices, revokedHashes>>
    /\ resp' = [Reply("", "logout", 200, "Logged out successfully")
                   EXCEPT !.presented = refreshCookie]
    /\ UNCHANGED <<users, now, ticks, pc, loc, rotatedHashes>>

\* POST /revoke-all-sessions: authenticateToken, then revokeAllUserDevices
RevokeAllSessions(cookie, header, refreshCookie) ==
    /\ UNCHANGED <<rbacVars, taskVars>>
    /\ LET a == authenticateToken("/api/auth/revoke-all-sessions",
                                  cookie, header)
       IN  /\ a.next
           /\ LET userId == a.identity[1].userId
                  exclude == IF refreshCookie # None
                             THEN Some(hashRefreshToken(refreshCookie[1]))
                             ELSE None
              IN  /\ devices' = revokeAllUserDevices(userId, exclude)
                  /\ resp' = [Reply("", "revokeAll", 200,
                                    "Revoked ${revokedCount} other sessions")
                                 EXCEPT !.identity = a.identity,
                                        !.presented = refreshCookie,
                                        !.count = Cardinality(
                                            revokeAllRows(userId, exclude))]
    /\ UNCHANGED <<users, now, ticks, pc, loc, revokedHashes, rotatedHashes>>

(***************************************************************************)
(* Administration.                                                         *)
(***************************************************************************)
\* AuthService.banUser: status update, then revokeAllUserDevices
BanUser(u) ==
    /\ UNCHANGED <<rbacVars, taskVars>>
    /\ users' = [users EXCEPT ![u].global_status = "BANNED"]
    /\ devices' = revokeAllUserDevices(u, None)
    /\ resp' = NoResp
    /\ UNCHANGED <<now, ticks, pc, loc, revokedHashes, rotatedHashes>>

\* GraphQL mutation userBan: status update only
UserBanMutation(requester, u) ==
    /\ UNCHANGED <<rbacVars, taskVars>>
    /\ users[requester].global_status = "ADMIN"
    /\ users' = [users EXCEPT ![u].global_status = "BANNED"]
    /\ resp' = NoResp
    /\ UNCHANGED <<devices, now, ticks, pc, loc, revokedHashes,
                   rotatedHashes>>

\* AuthService.unbanUser and GraphQL mutation userUnban
UnbanUser(requester, u) ==
    /\ UNCHANGED <<rbacVars, taskVars>>
    /\ users[requester].global_status = "ADMIN"
    /\ users' = [users EXCEPT ![u].global_status = "ACTIVE"]
    /\ resp' = NoResp
    /\ UNCHANGED <<devices, now, ticks, pc, loc, revokedHashes,
                   rotatedHashes>>

\* time passes: a second, or long enough for a token to expire
Tick(d) ==
    /\ UNCHANGED <<rbacVars, taskVars>>
    /\ ticks < MaxTicks
    /\ now' = now + d
    /\ ticks' = ticks + 1
    /\ resp' = NoResp
    /\ UNCHANGED <<users, devices, pc, loc, revokedHashes, rotatedHashes>>

TickDeltas == {1, AccessTokenTtl, RefreshTokenTtl}

(***************************************************************************)
(* Workspaces and projects: reads.                                         *)
(***************************************************************************)
WorkspaceRoles == {"OWNER", "MEMBER", "VIEWER"}
ProjectRoles == {"PROJECT_LEAD", "CONTRIBUTOR", "VIEWER"}

WorkspaceIds == 1..MaxWorkspaces
ProjectIds == 1..MaxProjects

\* what a client may send as a workspace name
NameInputs == {"", "  ", " Team "}

\* name.trim()
Trim(n) == IF n = "  " THEN "" ELSE IF n = " Team " THEN "Team" ELSE n

\* a >= b on two table lookups: false when either key is missing (undefined)
jsGreaterEq(a, b) == a # None /\ b # None /\ a[1] >= b[1]

\* variant whose ranks do not follow the order of the roles
workspaceRoleHierarchyUnordered(role) ==
    IF role = "VIEWER" THEN Some(2)
    ELSE IF role = "MEMBER" THEN Some(1)
    ELSE IF role = "OWNER" THEN Some(3)
    ELSE None

\* roleHierarchy of hasWorkspaceAccess
workspaceRoleHierarchy(role) ==
    IF role = "VIEWER" THEN Some(1)
    ELSE IF role = "MEMBER" THEN Some(2)
    ELSE IF role = "OWNER" THEN Some(3)
    ELSE None

\* roleHierarchy of the second definition of hasProjectAccess
projectRoleHierarchy(role) ==
    IF role = "VIEWER" THEN Some(1)
    ELSE IF role = "CONTRIBUTOR" THEN Some(2)
    ELSE IF role = "PROJECT_LEAD" THEN Some(3)
    ELSE None

\* SELECT role FROM workspace_members WHERE workspace_id = $1 AND user_id = $2
\* variant in which the PROJECT_LEAD of a project of the workspace counts
\* as its OWNER
getWorkspaceMemberRoleElevated(workspaceId, userId) ==
    LET rows == {m \in workspace_members :
                    m.workspace_id = workspaceId /\ m.user_id = userId}
        leads == \E pr \in projects : \E pm \in project_members :
                    /\ pr.workspace_id = workspaceId
                    /\ pm.project_id = pr.id
                    /\ pm.user_id = userId
                    /\ pm.role = "PROJECT_LEAD"
    IN  IF leads THEN Some("OWNER")
        ELSE IF rows = {} THEN None
        ELSE Some((CHOOSE m \in rows : TRUE).role)

getWorkspaceMemberRole(workspaceId, userId) ==
    LET rows == {m \in workspace_members :
                    m.workspace_id = workspaceId /\ m.user_id = userId}
    IN  IF rows = {} THEN None ELSE Some((CHOOSE m \in rows : TRUE).role)

\* variant that lets a user without a row pass the minimum role VIEWER
hasWorkspaceAccessDefaultViewer(workspaceId, userId, minimumRole) ==
    LET userRole == getWorkspaceMemberRole(workspaceId, userId)
    IN  IF userRole = None THEN minimumRole = "VIEWER"
        ELSE jsGreaterEq(workspaceRoleHierarchy(userRole[1]),
                         workspaceRoleHierarchy(minimumRole))

hasWorkspaceAccess(workspaceId, userId, minimumRole) ==
    LET userRole == getWorkspaceMemberRole(workspaceId, userId)
    IN  IF userRole = None THEN FALSE
        ELSE jsGreaterEq(workspaceRoleHierarchy(userRole[1]),
                         workspaceRoleHierarchy(minimumRole))

\* SELECT * FROM projects WHERE id = $1
getProjectById(projectId) ==
    LET rows == {r \in projects : r.id = projectId}
    IN  IF rows = {} THEN None ELSE Some(CHOOSE r \in rows : TRUE)

\* SELECT role FROM project_members WHERE project_id = $1 AND user_id = $2
getProjectMemberRole(projectId, userId) ==
    LET rows == {m \in project_members :
                    m.project_id = projectId /\ m.user_id = userId}
    IN  IF rows = {} THEN None ELSE Some((CHOOSE m \in rows : TRUE).role)

\* variant that forgets the exclusion: the requester counts as a lead
countProjectLeadsIncludingRequester(projectId, excludeUserId) ==
    Cardinality({m \in project_members :
                    /\ m.project_id = projectId
                    /\ m.role = "PROJECT_LEAD"})

\* SELECT COUNT(*) ... WHERE role = 'PROJECT_LEAD' AND user_id != $2
countProjectLeads(projectId, excludeUserId) ==
    Cardinality({m \in project_members :
                    /\ m.project_id = projectId
                    /\ m.role = "PROJECT_LEAD"
                    /\ m.user_id # excludeUserId})

\* the access decision for a user without a project_members row
projectAccessViaWorkspace(projectId, userId) ==
    LET project == getProjectById(projectId)
    IN  IF project = None THEN FALSE
        ELSE hasWorkspaceAccess(project[1].workspace_id, userId, "VIEWER")

\* variant without the workspace fallback: no project row, no access
hasProjectAccessWithoutFallback(projectId, userId, minimumRole) ==
    LET userRole == getProjectMemberRole(projectId, userId)
    IN  IF userRole = None
        THEN FALSE
        ELSE jsGreaterEq(workspaceRoleHierarchy(userRole[1]),
                         workspaceRoleHierarchy(minimumRole))

\* first definition of ProjectService.hasProjectAccess: its roleHierarchy is
\* the workspace table {VIEWER, MEMBER, OWNER}
hasProjectAccess(projectId, userId, minimumRole) ==
    LET userRole == getProjectMemberRole(projectId, userId)
    IN  IF userRole = None
        THEN projectAccessViaWorkspace(projectId, userId)
        ELSE jsGreaterEq(workspaceRoleHierarchy(userRole[1]),
                         workspaceRoleHierarchy(minimumRole))

\* second definition of ProjectService.hasProjectAccess
hasProjectAccess2(projectId, userId, minimumRole) ==
    LET userRole == getProjectMemberRole(projectId, userId)
    IN  IF userRole = None
        THEN projectAccessViaWorkspace(projectId, userId)
        ELSE jsGreaterEq(projectRoleHierarchy(userRole[1]),
                         projectRoleHierarchy(minimumRole))

(***************************************************************************)
(* database/client.ts: transaction.  Rows inserted on the transaction's    *)
(* connection are invisible to other connections until COMMIT; ROLLBACK    *)
(* discards them.                                                          *)
(***************************************************************************)
\* variant whose COMMIT keeps only the first row
transactionFirstRowOnly(outcome, inserted) ==
    IF outcome = "COMMIT" THEN SubSeq(inserted, 1, 1) ELSE <<>>

\* variant without ROLLBACK: what was inserted stays
transactionWithoutRollback(outcome, inserted) == inserted

transaction(outcome, inserted) ==
    IF outcome = "COMMIT" THEN inserted ELSE <<>>

RowsOf(rows, table) ==
    {rows[i].row : i \in {j \in DOMAIN rows : rows[j].table = table}}

\* the end of a transaction in slot p
EndTransaction(p, outcome) ==
    LET visible == transaction(outcome, call[p].inserted)
    IN  /\ workspaces' = workspaces \cup RowsOf(visible, "workspaces")
        /\ workspace_members' =
              workspace_members \cup RowsOf(visible, "workspace_members")
        /\ projects' = projects \cup RowsOf(visible, "projects")
        /\ project_members' =
              project_members \cup RowsOf(visible, "project_members")
        /\ call' = [call EXCEPT ![p] = NoCall]

\* a query on the transaction's connection: the row is buffered
InsertInTransaction(p, table, row, next) ==
    call' = [call EXCEPT ![p].inserted = Append(@, [table |-> table,
                                                    row |-> row]),
                         ![p].at = next]

tables == <<workspaces, workspace_members, projects, project_members>>

\* a service method that throws: the error class is what the caller sees
Thrown(op, args, error) == [op |-> op, args |-> args, result |-> Some(error)]

(***************************************************************************)
(* WorkspaceService.createWorkspace: BEGIN, INSERT workspaces, INSERT      *)
(* workspace_members, COMMIT.  Any query may throw; the catch block of     *)
(* transaction issues ROLLBACK.                                            *)
(***************************************************************************)
CreateWorkspace(p, name, userId) ==
    /\ UNCHANGED <<authVars, taskVars>>
    /\ call[p].at = "idle"
    /\ Trim(name) # ""
    /\ call' = [call EXCEPT ![p] =
          [NoCall EXCEPT !.at = "createWorkspace:insertWorkspace",
                         !.name = Trim(name), !.requesterId = userId]]
    /\ answer' = NoAnswer
    /\ UNCHANGED <<tables, nextId>>

InsertWorkspace(p, fails) ==
    /\ UNCHANGED <<authVars, taskVars>>
    /\ call[p].at = "createWorkspace:insertWorkspace"
    /\ answer' = NoAnswer
    /\ IF fails
       THEN EndTransaction(p, "ROLLBACK") /\ UNCHANGED nextId
       ELSE /\ nextId.workspaces <= MaxWorkspaces
            /\ InsertInTransaction(p, "workspaces",
                  [id |-> nextId.workspaces, name |-> call[p].name,
                   created_by |-> call[p].requesterId],
                  "createWorkspace:insertOwner")
            /\ nextId' = [nextId EXCEPT !.workspaces = @ + 1]
            /\ UNCHANGED tables

InsertOwner(p, fails) ==
    /\ UNCHANGED <<authVars, taskVars>>
    /\ call[p].at = "createWorkspace:insertOwner"
    /\ answer' = NoAnswer
    /\ UNCHANGED nextId
    /\ IF fails
       THEN EndTransaction(p, "ROLLBACK")
       ELSE /\ InsertInTransaction(p, "workspace_members",
                  [workspace_id |-> call[p].inserted[1].row.id,
                   user_id |-> call[p].requesterId, role |-> "OWNER"],
                  "createWorkspace:commit")
            /\ UNCHANGED tables

CommitWorkspace(p, fails) ==
    /\ UNCHANGED <<authVars, taskVars>>
    /\ call[p].at = "createWorkspace:commit"
    /\ UNCHANGED nextId
    /\ IF fails
       THEN EndTransaction(p, "ROLLBACK") /\ answer' = NoAnswer
       ELSE /\ EndTransaction(p, "COMMIT")
            /\ answer' = [op |-> "createWorkspace",
                          args |-> <<call[p].requesterId>>,
                          result |-> Some(call[p].inserted[1].row.id)]

(***************************************************************************)
(* ProjectService.createProject: hasWorkspaceAccess(.., 'MEMBER'), then    *)
(* BEGIN, INSERT projects, INSERT project_members, COMMIT.                 *)
(***************************************************************************)
\* variant that asks for VIEWER access only
CreateProjectForViewers(p, workspaceId, userId) ==
    /\ UNCHANGED <<authVars, taskVars>>
    /\ call[p].at = "idle"
    /\ hasWorkspaceAccess(workspaceId, userId, "VIEWER")
    /\ call' = [call EXCEPT ![p] =
          [NoCall EXCEPT !.at = "createProject:insertProject",
                         !.workspaceId = workspaceId,
                         !.requesterId = userId]]
    /\ answer' = NoAnswer
    /\ UNCHANGED <<tables, nextId>>

CreateProject(p, workspaceId, userId) ==
    /\ UNCHANGED <<authVars, taskVars>>
    /\ call[p].at = "idle"
    /\ hasWorkspaceAccess(workspaceId, userId, "MEMBER")
    /\ call' = [call EXCEPT ![p] =
          [NoCall EXCEPT !.at = "createProject:insertProject",
                         !.workspaceId = workspaceId,
                         !.requesterId = userId]]
    /\ answer' = NoAnswer
    /\ UNCHANGED <<tables, nextId>>

\* !hasAccess: ForbiddenError
CreateProjectRejected(p, workspaceId, userId) ==
    /\ UNCHANGED <<authVars, taskVars>>
    /\ call[p].at = "idle"
    /\ ~hasWorkspaceAccess(workspaceId, userId, "MEMBER")
    /\ answer' = Thrown("createProject", <<workspaceId, userId>>,
                        "ForbiddenError")
    /\ UNCHANGED <<tables, nextId, call>>

InsertProject(p, fails) ==
    /\ UNCHANGED <<authVars, taskVars>>
    /\ call[p].at = "createProject:insertProject"
    /\ answer' = NoAnswer
    /\ IF fails
       THEN EndTransaction(p, "ROLLBACK") /\ UNCHANGED nextId
       ELSE /\ nextId.projects <= MaxProjects
            /\ InsertInTransaction(p, "projects",
                  [id |-> nextId.projects,
                   workspace_id |-> call[p].workspaceId,
                   created_by |-> call[p].requesterId],
                  "createProject:insertLead")
            /\ nextId' = [nextId EXCEPT !.projects = @ + 1]
            /\ UNCHANGED tables

InsertLead(p, fails) ==
    /\ UNCHANGED <<authVars, taskVars>>
    /\ call[p].at = "createProject:insertLead"
    /\ answer' = NoAnswer
    /\ UNCHANGED nextId
    /\ IF fails
       THEN EndTransaction(p, "ROLLBACK")
       ELSE /\ InsertInTransaction(p, "project_members",
                  [project_id |-> call[p].inserted[1].row.id,
                   user_id |-> call[p].requesterId,
                   role |-> "PROJECT_LEAD"],
                  "createProject:commit")
            /\ UNCHANGED tables

CommitProject(p, fails) ==
    /\ UNCHANGED <<authVars, taskVars>>
    /\ call[p].at = "createProject:commit"
    /\ UNCHANGED nextId
    /\ IF fails
       THEN EndTransaction(p, "ROLLBACK") /\ answer' = NoAnswer
       ELSE /\ EndTransaction(p, "COMMIT")
            /\ answer' = [op |-> "createProject",
                          args |-> <<call[p].requesterId>>,
                          result |-> Some(call[p].inserted[1].row.id)]

(***************************************************************************)
(* WorkspaceService.addWorkspaceMember: requester role, existing row,      *)
(* target user, INSERT.  The users table does not change here, so the      *)
(* lookup of the target user is part of the step before the INSERT.        *)
(***************************************************************************)
\* variant without the check of the requester's role
AddWorkspaceMemberUnchecked(p, workspaceId, userId, role, requesterId) ==
    /\ UNCHANGED <<authVars, taskVars>>
    /\ call[p].at = "idle"
    /\ call' = [call EXCEPT ![p] =
          [NoCall EXCEPT !.at = "addWorkspaceMember:selectExisting",
                         !.workspaceId = workspaceId, !.userId = userId,
                         !.role = role, !.requesterId = requesterId]]
    /\ answer' = NoAnswer
    /\ UNCHANGED <<tables, nextId>>

AddWorkspaceMember(p, workspaceId, userId, role, requesterId) ==
    /\ UNCHANGED <<authVars, taskVars>>
    /\ call[p].at = "idle"
    /\ getWorkspaceMemberRole(workspaceId, requesterId) = Some("OWNER")
    /\ call' = [call EXCEPT ![p] =
          [NoCall EXCEPT !.at = "addWorkspaceMember:selectExisting",
                         !.workspaceId = workspaceId, !.userId = userId,
                         !.role = role, !.requesterId = requesterId]]
    /\ answer' = NoAnswer
    /\ UNCHANGED <<tables, nextId>>

\* requesterRole !== 'OWNER': ForbiddenError
AddWorkspaceMemberRejected(p, workspaceId, userId, role, requesterId) ==
    /\ UNCHANGED <<authVars, taskVars>>
    /\ call[p].at = "idle"
    /\ getWorkspaceMemberRole(workspaceId, requesterId) # Some("OWNER")
    /\ answer' = Thrown("addWorkspaceMember",
                        <<workspaceId, userId, role, requesterId>>,
                        "ForbiddenError")
    /\ UNCHANGED <<tables, nextId, call>>

AddMemberSelectExisting(p) ==
    /\ UNCHANGED <<authVars, taskVars>>
    /\ call[p].at = "addWorkspaceMember:selectExisting"
    /\ IF getWorkspaceMemberRole(call[p].workspaceId, call[p].userId) # None
       THEN call' = [call EXCEPT ![p] = NoCall]
       ELSE call' = [call EXCEPT ![p].at = "addWorkspaceMember:insert"]
    /\ answer' = NoAnswer
    /\ UNCHANGED <<tables, nextId>>

\* UNIQUE(workspace_id, user_id): the INSERT throws when the row exists
AddMemberInsert(p) ==
    /\ UNCHANGED <<authVars, taskVars>>
    /\ call[p].at = "addWorkspaceMember:insert"
    /\ IF getWorkspaceMemberRole(call[p].workspaceId, call[p].userId) # None
       THEN UNCHANGED workspace_members
       ELSE workspace_members' = workspace_members \cup
               {[workspace_id |-> call[p].workspaceId,
                 user_id |-> call[p].userId, role |-> call[p].role]}
    /\ call' = [call EXCEPT ![p] = NoCall]
    /\ answer' = NoAnswer
    /\ UNCHANGED <<workspaces, projects, project_members, nextId>>

(***************************************************************************)
(* WorkspaceService.removeWorkspaceMember: requester role, then DELETE.    *)
(***************************************************************************)
\* variant without the check userId === requesterId
RemoveWorkspaceMemberAllowingSelf(p, workspaceId, userId, requesterId) ==
    /\ UNCHANGED <<authVars, taskVars>>
    /\ call[p].at = "idle"
    /\ getWorkspaceMemberRole(workspaceId, requesterId) = Some("OWNER")
    /\ call' = [call EXCEPT ![p] =
          [NoCall EXCEPT !.at = "removeWorkspaceMember:delete",
                         !.workspaceId = workspaceId, !.userId = userId,
                         !.requesterId = requesterId]]
    /\ answer' = NoAnswer
    /\ UNCHANGED <<tables, nextId>>

RemoveWorkspaceMember(p, workspaceId, userId, requesterId) ==
    /\ UNCHANGED <<authVars, taskVars>>
    /\ call[p].at = "idle"
    /\ getWorkspaceMemberRole(workspaceId, requesterId) = Some("OWNER")
    /\ userId # requesterId
    /\ call' = [call EXCEPT ![p] =
          [NoCall EXCEPT !.at = "removeWorkspaceMember:delete",
                         !.workspaceId = workspaceId, !.userId = userId,
                         !.requesterId = requesterId]]
    /\ answer' = NoAnswer
    /\ UNCHANGED <<tables, nextId>>

\* requesterRole !== 'OWNER': ForbiddenError; then
\* userId === requesterId: UserInputError
RemoveWorkspaceMemberRejected(p, workspaceId, userId, requesterId) ==
    /\ UNCHANGED <<authVars, taskVars>>
    /\ call[p].at = "idle"
    /\ \/ getWorkspaceMemberRole(workspaceId, requesterId) # Some("OWNER")
       \/ userId = requesterId
    /\ answer' = Thrown("removeWorkspaceMember",
                        <<workspaceId, userId, requesterId>>,
                        IF getWorkspaceMemberRole(workspaceId, requesterId)
                              # Some("OWNER")
                        THEN "ForbiddenError" ELSE "UserInputError")
    /\ UNCHANGED <<tables, nextId, call>>

RemoveMemberDelete(p) ==
    /\ UNCHANGED <<authVars, taskVars>>
    /\ call[p].at = "removeWorkspaceMember:delete"
    /\ workspace_members' =
          {m \in workspace_members :
              ~(m.workspace_id = call[p].workspaceId
                /\ m.user_id = call[p].userId)}
    /\ call' = [call EXCEPT ![p] = NoCall]
    /\ answer' = NoAnswer
    /\ UNCHANGED <<workspaces, projects, project_members, nextId>>

(***************************************************************************)
(* WorkspaceService.updateWorkspaceMemberRole: requester role, target      *)
(* role, then UPDATE.                                                      *)
(***************************************************************************)
UpdateWorkspaceMemberRole(p, workspaceId, userId, role, requesterId) ==
    /\ UNCHANGED <<authVars, taskVars>>
    /\ call[p].at = "idle"
    /\ getWorkspaceMemberRole(workspaceId, requesterId) = Some("OWNER")
    /\ call' = [call EXCEPT ![p] =
          [NoCall EXCEPT !.at = "updateWorkspaceMemberRole:selectTarget",
                         !.workspaceId = workspaceId, !.userId = userId,
                         !.role = role, !.requesterId = requesterId]]
    /\ answer' = NoAnswer
    /\ UNCHANGED <<tables, nextId>>

\* requesterRole !== 'OWNER': ForbiddenError
UpdateWorkspaceMemberRoleRejected(p, workspaceId, userId, role, requesterId) ==
    /\ UNCHANGED <<authVars, taskVars>>
    /\ call[p].at = "idle"
    /\ getWorkspaceMemberRole(workspaceId, requesterId) # Some("OWNER")
    /\ answer' = Thrown("updateWorkspaceMemberRole",
                        <<workspaceId, userId, role, requesterId>>,
                        "ForbiddenError")
    /\ UNCHANGED <<tables, nextId, call>>

\* variant without the check of the target's role
UpdateRoleSelectTargetUnchecked(p) ==
    /\ UNCHANGED <<authVars, taskVars>>
    /\ call[p].at = "updateWorkspaceMemberRole:selectTarget"
    /\ call' = [call EXCEPT ![p].at = "updateWorkspaceMemberRole:update"]
    /\ answer' = NoAnswer
    /\ UNCHANGED <<tables, nextId>>

\* targetRole === 'OWNER': UserInputError
UpdateRoleSelectTarget(p) ==
    /\ UNCHANGED <<authVars, taskVars>>
    /\ call[p].at = "updateWorkspaceMemberRole:selectTarget"
    /\ IF getWorkspaceMemberRole(call[p].workspaceId, call[p].userId)
             = Some("OWNER")
       THEN /\ call' = [call EXCEPT ![p] = NoCall]
            /\ answer' = Thrown("updateWorkspaceMemberRole", <<>>,
                                "UserInputError")
       ELSE /\ call' = [call EXCEPT
                            ![p].at = "updateWorkspaceMemberRole:update"]
            /\ answer' = NoAnswer
    /\ UNCHANGED <<tables, nextId>>

UpdateRoleUpdate(p) ==
    /\ UNCHANGED <<authVars, taskVars>>
    /\ call[p].at = "updateWorkspaceMemberRole:update"
    /\ workspace_members' =
          {IF m.workspace_id = call[p].workspaceId
              /\ m.user_id = call[p].userId
           THEN [m EXCEPT !.role = call[p].role] ELSE m :
           m \in workspace_members}
    /\ call' = [call EXCEPT ![p] = NoCall]
    /\ answer' = NoAnswer
    /\ UNCHANGED <<workspaces, projects, project_members, nextId>>

(***************************************************************************)
(* ProjectService: getProject, updateProjectMemberRole, deleteProject.     *)
(* The reads of a call touch only committed rows and are taken together;   *)
(* the write is a step of its own.                                         *)
(***************************************************************************)
\* getProject: a workspace member without a project_members row is added as
\* VIEWER (INSERT ... ON CONFLICT DO NOTHING)
GetProject(projectId, userId) ==
    /\ UNCHANGED <<authVars, taskVars>>
    /\ getProjectById(projectId) # None
    /\ getWorkspaceMemberRole(getProjectById(projectId)[1].workspace_id,
                              userId) # None
    /\ getProjectMemberRole(projectId, userId) = None
    /\ project_members' = project_members \cup
          {[project_id |-> projectId, user_id |-> userId,
            role |-> "VIEWER"]}
    /\ answer' = NoAnswer
    /\ UNCHANGED <<workspaces, workspace_members, projects, nextId, call>>

UpdateProjectMemberRole(p, projectId, userId, role, requesterId) ==
    /\ UNCHANGED <<authVars, taskVars>>
    /\ call[p].at = "idle"
    /\ getProjectById(projectId) # None
    /\ LET isWorkspaceOwner ==
              hasWorkspaceAccess(getProjectById(projectId)[1].workspace_id,
                                 requesterId, "OWNER")
           isProjectLead ==
              getProjectMemberRole(projectId, requesterId)
                  = Some("PROJECT_LEAD")
       IN  /\ isProjectLead \/ isWorkspaceOwner
           /\ ~(/\ userId = requesterId
                /\ isProjectLead
                /\ countProjectLeads(projectId, requesterId) = 0)
    /\ call' = [call EXCEPT ![p] =
          [NoCall EXCEPT !.at = "updateProjectMemberRole:update",
                         !.projectId = projectId, !.userId = userId,
                         !.role = role, !.requesterId = requesterId]]
    /\ answer' = NoAnswer
    /\ UNCHANGED <<tables, nextId>>

\* the throws of updateProjectMemberRole before its UPDATE
UpdateProjectMemberRoleRejected(p, projectId, userId, role, requesterId) ==
    /\ UNCHANGED <<authVars, taskVars>>
    /\ call[p].at = "idle"
    /\ LET project == getProjectById(projectId)
           isWorkspaceOwner ==
              /\ project # None
              /\ hasWorkspaceAccess(project[1].workspace_id, requesterId,
                                    "OWNER")
           isProjectLead ==
              getProjectMemberRole(projectId, requesterId)
                  = Some("PROJECT_LEAD")
           error ==
              IF project = None THEN Some("UserInputError")
              ELSE IF ~isProjectLead /\ ~isWorkspaceOwner
              THEN Some("ForbiddenError")
              ELSE IF /\ userId = requesterId
                      /\ isProjectLead
                      /\ countProjectLeads(projectId, requesterId) = 0
              THEN Some("UserInputError")
              ELSE None
       IN  /\ error # None
           /\ answer' = Thrown("updateProjectMemberRole",
                               <<projectId, userId, role, requesterId>>,
                               error[1])
    /\ UNCHANGED <<tables, nextId, call>>

UpdateProjectRoleUpdate(p) ==
    /\ UNCHANGED <<authVars, taskVars>>
    /\ call[p].at = "updateProjectMemberRole:update"
    /\ project_members' =
          {IF m.project_id = call[p].projectId /\ m.user_id = call[p].userId
           THEN [m EXCEPT !.role = call[p].role] ELSE m :
           m \in project_members}
    /\ call' = [call EXCEPT ![p] = NoCall]
    /\ answer' = NoAnswer
    /\ UNCHANGED <<workspaces, workspace_members, projects, nextId>>

DeleteProject(p, projectId, requesterId) ==
    /\ UNCHANGED <<authVars, taskVars>>
    /\ call[p].at = "idle"
    /\ getProjectById(projectId) # None
    /\ \/ getProjectMemberRole(projectId, requesterId) = Some("PROJECT_LEAD")
       \/ hasWorkspaceAccess(getProjectById(projectId)[1].workspace_id,
                             requesterId, "OWNER")
    /\ call' = [call EXCEPT ![p] =
          [NoCall EXCEPT !.at = "deleteProject:delete",
                         !.projectId = projectId,
                         !.requesterId = requesterId]]
    /\ answer' = NoAnswer
    /\ UNCHANGED <<tables, nextId>>

\* DELETE FROM projects; project_members rows go with it (ON DELETE CASCADE)
DeleteProjectDelete(p) ==
    /\ UNCHANGED <<authVars, taskVars>>
    /\ call[p].at = "deleteProject:delete"
    /\ projects' = {r \in projects : r.id # call[p].projectId}
    /\ project_members' =
          {m \in project_members : m.project_id # call[p].projectId}
    /\ call' = [call EXCEPT ![p] = NoCall]
    /\ answer' = NoAnswer
    /\ UNCHANGED <<workspaces, workspace_members, nextId>>

(***************************************************************************)
(* Access decisions, as a caller sees them.                                *)
(***************************************************************************)
HasWorkspaceAccess(workspaceId, userId, minimumRole) ==
    /\ UNCHANGED <<authVars, taskVars>>
    /\ answer' = [op |-> "hasWorkspaceAccess",
                  args |-> <<workspaceId, userId, minimumRole>>,
                  result |-> Some(hasWorkspaceAccess(workspaceId, userId,
                                                     minimumRole))]
    /\ UNCHANGED <<tables, nextId, call>>

HasProjectAccess(projectId, userId, minimumRole) ==
    /\ UNCHANGED <<authVars, taskVars>>
    /\ answer' = [op |-> "hasProjectAccess",
                  args |-> <<projectId, userId, minimumRole>>,
                  result |-> Some(hasProjectAccess(projectId, userId,
                                                   minimumRole))]
    /\ UNCHANGED <<tables, nextId, call>>

HasProjectAccess2(projectId, userId, minimumRole) ==
    /\ UNCHANGED <<authVars, taskVars>>
    /\ answer' = [op |-> "hasProjectAccess2",
                  args |-> <<projectId, userId, minimumRole>>,
                  result |-> Some(hasProjectAccess2(projectId, userId,
                                                    minimumRole))]
    /\ UNCHANGED <<tables, nextId, call>>

(***************************************************************************)
(* TaskService (the definition that reads the current assignments on the   *)
(* transaction's connection).  The store is PostgreSQL: rows written on a  *)
(* transaction's connection are invisible to other connections until       *)
(* COMMIT; a statement that fails leaves the transaction aborted, every    *)
(* later statement on it fails, and its COMMIT is answered with ROLLBACK    *)
(* without an error.                                                       *)
(***************************************************************************)
TaskStatuses == {"TODO", "IN_PROGRESS", "DONE"}
TaskIds == 1..MaxTasks

\* assignedToIds as a client may send it
AssigneeInputs ==
    {<<>>, <<"u1">>, <<"u2">>, <<"u2", "admin">>, <<"admin", "u1">>,
     <<"u2", "u2">>}

Range(seq) == {seq[i] : i \in DOMAIN seq}

\* UNIQUE(task_id, user_id): the second INSERT of the same user throws
HasDuplicates(seq) == Cardinality(Range(seq)) < Len(seq)

\* SELECT * FROM tasks WHERE id = $1
getTaskById(taskId) ==
    LET rows == {t \in tasks : t.id = taskId}
    IN  IF rows = {} THEN None ELSE Some(CHOOSE t \in rows : TRUE)

isTaskAssignedToUser(taskId, userId) ==
    [task_id |-> taskId, user_id |-> userId] \in task_assignments

hasAnyAssignments(taskId) ==
    \E a \in task_assignments : a.task_id = taskId

\* variant that lets a CONTRIBUTOR update every task
canUpdateTaskAnyContributor(taskId, userId) ==
    LET task == getTaskById(taskId)
    IN  IF task = None THEN FALSE
        ELSE getProjectMemberRole(task[1].project_id, userId)
                 \in {Some("PROJECT_LEAD"), Some("CONTRIBUTOR")}

canUpdateTask(taskId, userId) ==
    LET task == getTaskById(taskId)
    IN  IF task = None THEN FALSE
        ELSE LET userRole == getProjectMemberRole(task[1].project_id, userId)
             IN  IF userRole = Some("PROJECT_LEAD") THEN TRUE
                 ELSE IF userRole = Some("CONTRIBUTOR")
                 THEN \/ isTaskAssignedToUser(taskId, userId)
                      \/ ~hasAnyAssignments(taskId)
                 ELSE FALSE

\* `User ${assignedUserId} does not have access to this project`
UserInputErrorNaming(u) ==
    IF u = "u1" THEN "UserInputError: User u1"
    ELSE IF u = "u2" THEN "UserInputError: User u2"
    ELSE "UserInputError: User admin"

\* the rows of one table that belong to a task
AssignmentRows(taskId, userIds) ==
    {[task_id |-> taskId, user_id |-> u] : u \in userIds}

NotificationRows(taskId, userIds) ==
    {[recipient_id |-> u, related_entity_id |-> taskId] : u \in userIds}

\* variant that sends the notification on a connection of the pool: the
\* row is committed on its own
NotificationClientPool(client) == "pool"

\* createTaskAssignmentNotification(userId, taskId, title, client): the
\* connection the INSERT INTO notifications runs on
NotificationClient(client) == client

\* COMMIT: the writes become visible unless the transaction is aborted
Commits(aborted) == ~aborted

\* the checks of createTask before its transaction
createTaskError(projectId, assignedToIds, userId) ==
    IF ~hasProjectAccess(projectId, userId, "CONTRIBUTOR")
    THEN Some("ForbiddenError")
    ELSE LET bad == {i \in DOMAIN assignedToIds :
                        ~hasProjectAccess(projectId, assignedToIds[i],
                                          "VIEWER")}
         IN  IF bad = {} THEN None
             ELSE Some(UserInputErrorNaming(
                          assignedToIds[CHOOSE i \in bad :
                                           \A j \in bad : i <= j]))

CreateTask(p, projectId, assignedToIds, userId) ==
    /\ UNCHANGED <<authVars, tables, nextId, call>>
    /\ tcall[p].at = "idle"
    /\ createTaskError(projectId, assignedToIds, userId) = None
    /\ tcall' = [tcall EXCEPT ![p] =
          [NoTaskCall EXCEPT !.at = "createTask:transaction",
                             !.projectId = projectId, !.userId = userId,
                             !.assignedToIds = Some(assignedToIds)]]
    /\ answer' = NoAnswer
    /\ UNCHANGED <<tasks, task_assignments, notifications, nextTaskId>>

CreateTaskRejected(p, projectId, assignedToIds, userId) ==
    /\ UNCHANGED <<authVars, tables, nextId, call, taskVars>>
    /\ tcall[p].at = "idle"
    /\ createTaskError(projectId, assignedToIds, userId) # None
    /\ answer' = Thrown("createTask", <<projectId, assignedToIds, userId>>,
                        createTaskError(projectId, assignedToIds, userId)[1])

\* The callback of db.transaction: INSERT INTO tasks, then for each assignee
\* INSERT INTO task_assignments and the notification.  failure is "none",
\* "statement" (a statement of the callback throws: ROLLBACK, the error
\* reaches the caller) or "notification" (the INSERT of the last
\* notification fails: the error is swallowed and COMMIT follows; the
\* failure of an earlier notification makes the next INSERT throw, which
\* is the case "statement").
CreateTaskTransaction(p, failure) ==
    /\ UNCHANGED <<authVars, tables, nextId, call>>
    /\ tcall[p].at = "createTask:transaction"
    /\ nextTaskId <= MaxTasks
    /\ LET ids == tcall[p].assignedToIds[1]
           client == NotificationClient(p)
           sent == IF failure = "notification"
                   THEN Range(ids) \ {ids[Len(ids)]} ELSE Range(ids)
       IN  /\ failure = "notification" => ids # <<>>
           /\ BagCardinality(notifications) + Len(ids) <= MaxNotifications
           /\ nextTaskId' = nextTaskId + 1
           /\ notifications' =
                 IF client = p THEN notifications
                 ELSE notifications
                         (+) SetToBag(NotificationRows(nextTaskId, sent))
           /\ IF failure = "statement" \/ HasDuplicates(ids)
              THEN /\ tcall' = [tcall EXCEPT ![p] = NoTaskCall]
                   /\ answer' = Thrown("createTask", <<>>, "Error")
              ELSE /\ tcall' = [tcall EXCEPT
                        ![p].at = "createTask:commit",
                        ![p].taskId = nextTaskId,
                        ![p].task = Some([id |-> nextTaskId,
                                          project_id |-> tcall[p].projectId,
                                          status |-> "TODO",
                                          created_by |-> tcall[p].userId]),
                        ![p].assignments = Some(Range(ids)),
                        ![p].notify = IF client = p THEN sent ELSE {},
                        ![p].aborted = (failure = "notification"
                                           /\ client = p)]
                   /\ answer' = NoAnswer
    /\ UNCHANGED <<tasks, task_assignments>>

\* the writes of the transaction in slot p become visible
ApplyTaskWrites(p) ==
    LET c == tcall[p]
    IN  /\ tasks' = {t \in tasks : t.id # c.taskId} \cup {c.task[1]}
        /\ task_assignments' =
              IF c.assignments = None THEN task_assignments
              ELSE {a \in task_assignments : a.task_id # c.taskId}
                      \cup AssignmentRows(c.taskId, c.assignments[1])
        /\ notifications' =
              notifications (+) SetToBag(NotificationRows(c.taskId, c.notify))

\* COMMIT of createTask; a COMMIT that throws is followed by ROLLBACK
CreateTaskCommit(p, fails) ==
    /\ UNCHANGED <<authVars, tables, nextId, call, nextTaskId>>
    /\ tcall[p].at = "createTask:commit"
    /\ IF fails
       THEN /\ tcall' = [tcall EXCEPT ![p] = NoTaskCall]
            /\ answer' = Thrown("createTask", <<>>, "Error")
            /\ UNCHANGED <<tasks, task_assignments, notifications>>
       ELSE /\ IF Commits(tcall[p].aborted)
               THEN ApplyTaskWrites(p)
               ELSE UNCHANGED <<tasks, task_assignments, notifications>>
            /\ tcall' = [tcall EXCEPT
                  ![p].at = "createTask:publish",
                  ![p].committed = Commits(tcall[p].aborted)]
            /\ answer' = NoAnswer

\* after the transaction: the task is published on TASK_STATUS_UPDATED of
\* the project's workspace and returned
CreateTaskPublish(p) ==
    /\ UNCHANGED <<authVars, tables, nextId, call>>
    /\ tcall[p].at = "createTask:publish"
    /\ answer' = [op |-> "createTask",
                  args |-> <<tcall[p].projectId, tcall[p].userId>>,
                  result |-> Some([task |-> tcall[p].taskId,
                                   published |->
                                      getProjectById(tcall[p].projectId)
                                          # None])]
    /\ tcall' = [tcall EXCEPT ![p] = NoTaskCall]
    /\ UNCHANGED <<tasks, task_assignments, notifications, nextTaskId>>

\* after the transaction: ProjectService.getProjectById logs and rethrows
\* the error of its query, and createTask rethrows it to its caller
CreateTaskPublishFails(p) ==
    /\ UNCHANGED <<authVars, tables, nextId, call>>
    /\ tcall[p].at = "createTask:publish"
    /\ answer' = Thrown("createTask", <<>>, "Error")
    /\ tcall' = [tcall EXCEPT ![p] = NoTaskCall]
    /\ UNCHANGED <<tasks, task_assignments, notifications, nextTaskId>>

\* the checks of updateTask before its transaction; others says whether
\* one of title, description and dueDate is given
updateTaskError(taskId, status, others, userId) ==
    IF getTaskById(taskId) = None THEN Some("UserInputError: Task not found")
    ELSE IF ~canUpdateTask(taskId, userId) THEN Some("ForbiddenError")
    ELSE IF status = None /\ ~others
    THEN Some("UserInputError: No fields to update")
    ELSE None

\* currentTask is read here, before the transaction starts
UpdateTask(p, taskId, status, assignedToIds, others, userId) ==
    /\ UNCHANGED <<authVars, tables, nextId, call>>
    /\ tcall[p].at = "idle"
    /\ updateTaskError(taskId, status, others, userId) = None
    /\ tcall' = [tcall EXCEPT ![p] =
          [NoTaskCall EXCEPT !.at = "updateTask:transaction",
                             !.taskId = taskId, !.userId = userId,
                             !.projectId = getTaskById(taskId)[1].project_id,
                             !.status = status,
                             !.assignedToIds = assignedToIds,
                             !.currentStatus = getTaskById(taskId)[1].status]]
    /\ answer' = NoAnswer
    /\ UNCHANGED <<tasks, task_assignments, notifications, nextTaskId>>

UpdateTaskRejected(p, taskId, status, assignedToIds, others, userId) ==
    /\ UNCHANGED <<authVars, tables, nextId, call, taskVars>>
    /\ tcall[p].at = "idle"
    /\ updateTaskError(taskId, status, others, userId) # None
    /\ answer' = Thrown("updateTask", <<taskId, status, assignedToIds, userId>>,
                        updateTaskError(taskId, status, others, userId)[1])

\* variant that notifies every assignee of the new list
addedAssigneesAll(assignedToIds, currentAssignedIds) == Range(assignedToIds)

\* the assignees for whom !currentAssignedIds.includes(assignedUserId)
addedAssignees(assignedToIds, currentAssignedIds) ==
    {u \in Range(assignedToIds) : u \notin currentAssignedIds}

\* UPDATE tasks ... WHERE id locks the row until the transaction ends
TaskRowLocked(p, taskId) ==
    \E q \in Procs \ {p} :
        tcall[q].at = "updateTask:commit" /\ tcall[q].taskId = taskId

\* The callback of db.transaction: UPDATE tasks, then, when assignedToIds
\* is given, SELECT the current assignments, DELETE them and INSERT the new
\* list with a notification for each added user.  failure as in
\* CreateTaskTransaction.  prior is the status of the row the UPDATE found.
UpdateTaskTransaction(p, failure) ==
    /\ UNCHANGED <<authVars, tables, nextId, call, nextTaskId>>
    /\ tcall[p].at = "updateTask:transaction"
    /\ ~TaskRowLocked(p, tcall[p].taskId)
    /\ LET c == tcall[p]
           row == getTaskById(c.taskId)[1]
           given == c.assignedToIds # None
           ids == IF given THEN c.assignedToIds[1] ELSE <<>>
           currentAssignedIds ==
               {a.user_id : a \in {b \in task_assignments :
                                      b.task_id = c.taskId}}
           added == addedAssignees(ids, currentAssignedIds)
           client == NotificationClient(p)
           sent == IF failure = "notification"
                   THEN added \ {ids[Len(ids)]} ELSE added
       IN  /\ failure = "notification" =>
                 ids # <<>> /\ ids[Len(ids)] \in added
           /\ BagCardinality(notifications) + Cardinality(added)
                 <= MaxNotifications
           /\ notifications' =
                 IF client = p THEN notifications
                 ELSE notifications
                         (+) SetToBag(NotificationRows(c.taskId, sent))
           /\ IF failure = "statement" \/ HasDuplicates(ids)
              THEN /\ tcall' = [tcall EXCEPT ![p] = NoTaskCall]
                   /\ answer' = Thrown("updateTask", <<>>, "Error")
              ELSE /\ tcall' = [tcall EXCEPT
                        ![p].at = "updateTask:commit",
                        ![p].prior = row.status,
                        ![p].task = Some([row EXCEPT !.status =
                                            IF c.status = None THEN @
                                            ELSE c.status[1]]),
                        ![p].assignments =
                            IF given THEN Some(Range(ids)) ELSE None,
                        ![p].notify = IF client = p THEN sent ELSE {},
                        ![p].aborted = (failure = "notification"
                                           /\ client = p)]
                   /\ answer' = NoAnswer
    /\ UNCHANGED <<tasks, task_assignments>>

\* COMMIT of updateTask; a COMMIT that throws is followed by ROLLBACK
UpdateTaskCommit(p, fails) ==
    /\ UNCHANGED <<authVars, tables, nextId, call, nextTaskId>>
    /\ tcall[p].at = "updateTask:commit"
    /\ IF fails
       THEN /\ tcall' = [tcall EXCEPT ![p] = NoTaskCall]
            /\ answer' = Thrown("updateTask", <<>>, "Error")
            /\ UNCHANGED <<tasks, task_assignments, notifications>>
       ELSE /\ IF Commits(tcall[p].aborted)
               THEN ApplyTaskWrites(p)
               ELSE UNCHANGED <<tasks, task_assignments, notifications>>
            /\ tcall' = [tcall EXCEPT
                  ![p].at = "updateTask:publish",
                  ![p].committed = Commits(tcall[p].aborted)]
            /\ answer' = NoAnswer

\* status !== undefined && status !== currentTask.status, with the
\* currentTask read before the transaction
publishesStatusEvent(status, currentStatus, projectId) ==
    /\ status # None
    /\ status[1] # currentStatus
    /\ getProjectById(projectId) # None

\* after the transaction: the publish decision and the return
UpdateTaskPublish(p) ==
    /\ UNCHANGED <<authVars, tables, nextId, call>>
    /\ tcall[p].at = "updateTask:publish"
    /\ answer' = [op |-> "updateTask",
                  args |-> <<tcall[p].taskId, tcall[p].userId>>,
                  result |-> Some([task |-> tcall[p].taskId,
                                   published |-> publishesStatusEvent(
                                       tcall[p].status,
                                       tcall[p].currentStatus,
                                       tcall[p].projectId)])]
    /\ tcall' = [tcall EXCEPT ![p] = NoTaskCall]
    /\ UNCHANGED <<tasks, task_assignments, notifications, nextTaskId>>

(***************************************************************************)
(* SpecRbac: creation, membership and projects, one service call at a      *)
(* time per step sequence (the calls of one client).                       *)
(***************************************************************************)
NextRbac ==
    \/ \E n \in NameInputs, u \in Users : CreateWorkspace("p1", n, u)
    \/ \E f \in BOOLEAN : InsertWorkspace("p1", f)
    \/ \E f \in BOOLEAN : InsertOwner("p1", f)
    \/ \E f \in BOOLEAN : CommitWorkspace("p1", f)
    \/ \E w \in WorkspaceIds, u \in Users : CreateProject("p1", w, u)
    \/ \E f \in BOOLEAN : InsertProject("p1", f)
    \/ \E f \in BOOLEAN : InsertLead("p1", f)
    \/ \E f \in BOOLEAN : CommitProject("p1", f)
    \/ \E w \in WorkspaceIds, u \in Users, r \in WorkspaceRoles, q \in Users :
          AddWorkspaceMember("p1", w, u, r, q)
    \/ AddMemberSelectExisting("p1")
    \/ AddMemberInsert("p1")
    \/ \E w \in WorkspaceIds, u \in Users, q \in Users :
          RemoveWorkspaceMember("p1", w, u, q)
    \/ RemoveMemberDelete("p1")
    \/ \E w \in WorkspaceIds, u \in Users, r \in WorkspaceRoles, q \in Users :
          UpdateWorkspaceMemberRole("p1", w, u, r, q)
    \/ UpdateRoleSelectTarget("p1")
    \/ UpdateRoleUpdate("p1")
    \/ \E pr \in ProjectIds, u \in Users : GetProject(pr, u)
    \/ \E pr \in ProjectIds, u \in Users, r \in ProjectRoles, q \in Users :
          UpdateProjectMemberRole("p1", pr, u, r, q)
    \/ UpdateProjectRoleUpdate("p1")
    \/ \E pr \in ProjectIds, q \in Users : DeleteProject("p1", pr, q)
    \/ DeleteProjectDelete("p1")

(***************************************************************************)
(* SpecMembers: workspace membership with two service calls in flight.     *)
(* Membership requests address the first workspace.                        *)
(***************************************************************************)
NextMembers ==
    \/ \E p \in Procs, n \in NameInputs, u \in Users : CreateWorkspace(p, n, u)
    \/ \E p \in Procs, f \in BOOLEAN : InsertWorkspace(p, f)
    \/ \E p \in Procs, f \in BOOLEAN : InsertOwner(p, f)
    \/ \E p \in Procs, f \in BOOLEAN : CommitWorkspace(p, f)
    \/ \E p \in Procs, u \in Users, r \in WorkspaceRoles, q \in Users :
          AddWorkspaceMember(p, 1, u, r, q)
    \/ \E p \in Procs : AddMemberSelectExisting(p)
    \/ \E p \in Procs : AddMemberInsert(p)
    \/ \E p \in Procs, u \in Users, q \in Users :
          RemoveWorkspaceMember(p, 1, u, q)
    \/ \E p \in Procs : RemoveMemberDelete(p)
    \/ \E p \in Procs, u \in Users, r \in WorkspaceRoles, q \in Users :
          UpdateWorkspaceMemberRole(p, 1, u, r, q)
    \/ \E p \in Procs : UpdateRoleSelectTarget(p)
    \/ \E p \in Procs : UpdateRoleUpdate(p)

(***************************************************************************)
(* SpecOwners: membership requests and project creation on one workspace   *)
(* by owners, members, viewers and strangers, one call at a time; a        *)
(* request rejected before its first write is answered with the error      *)
(* thrown.                                                                 *)
(***************************************************************************)
NextOwners ==
    \/ nextId.workspaces = 1 /\ CreateWorkspace("p1", " Team ", "u1")
    \/ \E f \in BOOLEAN : InsertWorkspace("p1", f)
    \/ \E f \in BOOLEAN : InsertOwner("p1", f)
    \/ \E f \in BOOLEAN : CommitWorkspace("p1", f)
    \/ \E u \in AllUsers, r \in WorkspaceRoles, q \in AllUsers :
          AddWorkspaceMember("p1", 1, u, r, q)
    \/ \E u \in AllUsers, r \in WorkspaceRoles, q \in AllUsers :
          AddWorkspaceMemberRejected("p1", 1, u, r, q)
    \/ AddMemberSelectExisting("p1")
    \/ AddMemberInsert("p1")
    \/ \E u \in AllUsers, q \in AllUsers : RemoveWorkspaceMember("p1", 1, u, q)
    \/ \E u \in AllUsers, q \in AllUsers :
          RemoveWorkspaceMemberRejected("p1", 1, u, q)
    \/ RemoveMemberDelete("p1")
    \/ \E u \in AllUsers, r \in WorkspaceRoles, q \in AllUsers :
          UpdateWorkspaceMemberRole("p1", 1, u, r, q)
    \/ \E u \in AllUsers, r \in WorkspaceRoles, q \in AllUsers :
          UpdateWorkspaceMemberRoleRejected("p1", 1, u, r, q)
    \/ UpdateRoleSelectTarget("p1")
    \/ UpdateRoleUpdate("p1")
    \/ \E u \in AllUsers : CreateProject("p1", 1, u)
    \/ \E u \in AllUsers : CreateProjectRejected("p1", 1, u)
    \/ \E f \in BOOLEAN : InsertProject("p1", f)
    \/ \E f \in BOOLEAN : InsertLead("p1", f)
    \/ \E f \in BOOLEAN : CommitProject("p1", f)

(***************************************************************************)
(* SpecRoles: role updates of workspace and project members, two requests  *)
(* in flight, over the first workspace and its projects; rejected requests *)
(* are answered with the error thrown.                                     *)
(***************************************************************************)
NextRoles ==
    \/ \E n \in NameInputs, u \in Users :
          nextId.workspaces = 1 /\ CreateWorkspace("p1", n, u)
    \/ \E f \in BOOLEAN : InsertWorkspace("p1", f)
    \/ \E f \in BOOLEAN : InsertOwner("p1", f)
    \/ \E f \in BOOLEAN : CommitWorkspace("p1", f)
    \/ \E u \in Users : CreateProject("p1", 1, u)
    \/ \E f \in BOOLEAN : InsertProject("p1", f)
    \/ \E f \in BOOLEAN : InsertLead("p1", f)
    \/ \E f \in BOOLEAN : CommitProject("p1", f)
    \/ \E u \in Users, r \in WorkspaceRoles, q \in Users :
          AddWorkspaceMember("p1", 1, u, r, q)
    \/ AddMemberSelectExisting("p1")
    \/ AddMemberInsert("p1")
    \/ \E pr \in ProjectIds, u \in Users : GetProject(pr, u)
    \/ \E p \in Procs, u \in Users, r \in WorkspaceRoles, q \in Users :
          UpdateWorkspaceMemberRole(p, 1, u, r, q)
    \/ \E p \in Procs, u \in Users, r \in WorkspaceRoles, q \in Users :
          UpdateWorkspaceMemberRoleRejected(p, 1, u, r, q)
    \/ \E p \in Procs : UpdateRoleSelectTarget(p)
    \/ \E p \in Procs : UpdateRoleUpdate(p)
    \/ \E p \in Procs, pr \in ProjectIds, u \in Users, r \in ProjectRoles,
          q \in Users : UpdateProjectMemberRole(p, pr, u, r, q)
    \/ \E p \in Procs, pr \in ProjectIds, u \in Users, r \in ProjectRoles,
          q \in Users : UpdateProjectMemberRoleRejected(p, pr, u, r, q)
    \/ \E p \in Procs : UpdateProjectRoleUpdate(p)

(***************************************************************************)
(* SpecTasks: tasks of one project of one workspace.  u1 creates the       *)
(* workspace and the project and admits the other users; one call at a     *)
(* time.                                                                   *)
(***************************************************************************)
StatusInputs == {None, Some("IN_PROGRESS"), Some("DONE")}
AssigneeUpdateInputs == {None} \cup {Some(ids) : ids \in AssigneeInputs}
TransactionFailures == {"none", "statement", "notification"}

\* no call is in progress
Quiet == call["p1"] = NoCall /\ tcall["p1"].at = "idle"

NextTasks ==
    \/ nextId.workspaces = 1 /\ Quiet /\ CreateWorkspace("p1", " Team ", "u1")
    \/ InsertWorkspace("p1", FALSE)
    \/ InsertOwner("p1", FALSE)
    \/ CommitWorkspace("p1", FALSE)
    \/ Quiet /\ CreateProject("p1", 1, "u1")
    \/ InsertProject("p1", FALSE)
    \/ InsertLead("p1", FALSE)
    \/ CommitProject("p1", FALSE)
    \/ \E u \in AllUsers \ {"u1"} :
          Quiet /\ AddWorkspaceMember("p1", 1, u, "MEMBER", "u1")
    \/ AddMemberSelectExisting("p1")
    \/ AddMemberInsert("p1")
    \/ \E pr \in ProjectIds : Quiet /\ GetProject(pr, "u2")
    \/ \E pr \in ProjectIds :
          Quiet /\ UpdateProjectMemberRole("p1", pr, "u2", "CONTRIBUTOR", "u1")
    \/ UpdateProjectRoleUpdate("p1")
    \/ \E pr \in ProjectIds, ids \in AssigneeInputs, u \in AllUsers :
          Quiet /\ CreateTask("p1", pr, ids, u)
    \/ \E pr \in ProjectIds, ids \in AssigneeInputs, u \in AllUsers :
          Quiet /\ CreateTaskRejected("p1", pr, ids, u)
    \/ \E f \in TransactionFailures : CreateTaskTransaction("p1", f)
    \/ \E f \in BOOLEAN : CreateTaskCommit("p1", f)
    \/ CreateTaskPublish("p1")
    \/ CreateTaskPublishFails("p1")
    \/ \E t \in TaskIds, st \in StatusInputs, ids \in AssigneeUpdateInputs,
          o \in BOOLEAN, u \in Users :
          Quiet /\ UpdateTask("p1", t, st, ids, o, u)
    \/ \E t \in TaskIds, st \in StatusInputs, o \in BOOLEAN, u \in AllUsers :
          Quiet /\ UpdateTaskRejected("p1", t, st, None, o, u)
    \/ \E f \in TransactionFailures : UpdateTaskTransaction("p1", f)
    \/ \E f \in BOOLEAN : UpdateTaskCommit("p1", f)
    \/ UpdateTaskPublish("p1")

(***************************************************************************)
(* SpecInheritance: every kind of operation on one workspace, its project  *)
(* and its task, one call at a time: membership, project creation, reads,  *)
(* access checks, project roles and tasks.                                 *)
(***************************************************************************)
NextInheritance ==
    \/ nextId.workspaces = 1 /\ Quiet /\ CreateWorkspace("p1", " Team ", "u1")
    \/ InsertWorkspace("p1", FALSE)
    \/ InsertOwner("p1", FALSE)
    \/ CommitWorkspace("p1", FALSE)
    \/ \E u \in AllUsers \ {"u1"}, r \in {"MEMBER", "VIEWER"} :
          Quiet /\ AddWorkspaceMember("p1", 1, u, r, "u1")
    \/ \E q \in AllUsers :
          Quiet /\ AddWorkspaceMemberRejected("p1", 1, "u2", "MEMBER", q)
    \/ AddMemberSelectExisting("p1")
    \/ AddMemberInsert("p1")
    \/ Quiet /\ RemoveWorkspaceMember("p1", 1, "u2", "u1")
    \/ RemoveMemberDelete("p1")
    \/ \E u \in AllUsers : Quiet /\ CreateProject("p1", 1, u)
    \/ InsertProject("p1", FALSE)
    \/ InsertLead("p1", FALSE)
    \/ CommitProject("p1", FALSE)
    \/ \E pr \in ProjectIds, u \in AllUsers : Quiet /\ GetProject(pr, u)
    \/ \E pr \in ProjectIds, r \in ProjectRoles :
          Quiet /\ UpdateProjectMemberRole("p1", pr, "u2", r, "u1")
    \/ UpdateProjectRoleUpdate("p1")
    \/ \E u \in AllUsers \ {"u1"}, r \in {"VIEWER", "MEMBER"} :
          Quiet /\ HasWorkspaceAccess(1, u, r)
    \/ \E pr \in ProjectIds : Quiet /\ HasProjectAccess(pr, "u2", "VIEWER")
    \/ \E pr \in ProjectIds, ids \in {<<>>, <<"u2">>}, u \in Users :
          Quiet /\ CreateTask("p1", pr, ids, u)
    \/ CreateTaskTransaction("p1", "none")
    \/ CreateTaskCommit("p1", FALSE)
    \/ CreateTaskPublish("p1")
    \/ \E t \in TaskIds, ids \in {None, Some(<<"u2">>)} :
          Quiet /\ UpdateTask("p1", t, Some("DONE"), ids, FALSE, "u1")
    \/ UpdateTaskTransaction("p1", "none")
    \/ UpdateTaskCommit("p1", FALSE)
    \/ UpdateTaskPublish("p1")

(***************************************************************************)
(* SpecTaskRace: two updateTask calls on the same task at the same time.   *)
(* u1 creates the workspace and the project and admits u2, u2 creates the  *)
(* task, and the project lead u1 updates it from both slots.               *)
(***************************************************************************)
AllQuiet == \A p \in Procs : call[p] = NoCall /\ tcall[p].at = "idle"

NextTaskRace ==
    \/ nextId.workspaces = 1 /\ AllQuiet
          /\ CreateWorkspace("p1", " Team ", "u1")
    \/ InsertWorkspace("p1", FALSE)
    \/ InsertOwner("p1", FALSE)
    \/ CommitWorkspace("p1", FALSE)
    \/ AllQuiet /\ CreateProject("p1", 1, "u1")
    \/ InsertProject("p1", FALSE)
    \/ InsertLead("p1", FALSE)
    \/ CommitProject("p1", FALSE)
    \/ AllQuiet /\ AddWorkspaceMember("p1", 1, "u2", "MEMBER", "u1")
    \/ AddMemberSelectExisting("p1")
    \/ AddMemberInsert("p1")
    \/ \E pr \in ProjectIds, ids \in {<<>>, <<"u2">>} :
          AllQuiet /\ CreateTask("p1", pr, ids, "u2")
    \/ \E f \in TransactionFailures : CreateTaskTransaction("p1", f)
    \/ \E f \in BOOLEAN : CreateTaskCommit("p1", f)
    \/ CreateTaskPublish("p1")
    \/ \E p \in Procs, t \in TaskIds, st \in StatusInputs,
          ids \in {None, Some(<<"u2">>)}, o \in BOOLEAN :
          UpdateTask(p, t, st, ids, o, "u1")
    \/ \E p \in Procs, f \in TransactionFailures : UpdateTaskTransaction(p, f)
    \/ \E p \in Procs, f \in BOOLEAN : UpdateTaskCommit(p, f)
    \/ \E p \in Procs : UpdateTaskPublish(p)

(***************************************************************************)
(* SpecAccess: the access decisions, over one workspace and its projects.  *)
(***************************************************************************)
NextAccess ==
    \/ \E n \in NameInputs, u \in Users :
          nextId.workspaces = 1 /\ CreateWorkspace("p1", n, u)
    \/ \E f \in BOOLEAN : InsertWorkspace("p1", f)
    \/ \E f \in BOOLEAN : InsertOwner("p1", f)
    \/ \E f \in BOOLEAN : CommitWorkspace("p1", f)
    \/ \E w \in WorkspaceIds, u \in Users : CreateProject("p1", w, u)
    \/ \E f \in BOOLEAN : InsertProject("p1", f)
    \/ \E f \in BOOLEAN : InsertLead("p1", f)
    \/ \E f \in BOOLEAN : CommitProject("p1", f)
    \/ \E w \in WorkspaceIds, u \in Users, r \in WorkspaceRoles, q \in Users :
          AddWorkspaceMember("p1", w, u, r, q)
    \/ AddMemberSelectExisting("p1")
    \/ AddMemberInsert("p1")
    \/ \E w \in WorkspaceIds, u \in Users, r \in WorkspaceRoles, q \in Users :
          UpdateWorkspaceMemberRole("p1", w, u, r, q)
    \/ UpdateRoleSelectTarget("p1")
    \/ UpdateRoleUpdate("p1")
    \/ \E pr \in ProjectIds, u \in Users : GetProject(pr, u)
    \/ \E pr \in ProjectIds, u \in Users, r \in ProjectRoles, q \in Users :
          UpdateProjectMemberRole("p1", pr, u, r, q)
    \/ UpdateProjectRoleUpdate("p1")
    \/ \E w \in WorkspaceIds, u \in Users, r \in WorkspaceRoles :
          HasWorkspaceAccess(w, u, r)
    \/ \E pr \in ProjectIds, u \in Users, r \in ProjectRoles :
          HasProjectAccess(pr, u, r)
    \/ \E pr \in ProjectIds, u \in Users, r \in ProjectRoles :
          HasProjectAccess2(pr, u, r)

(***************************************************************************)
(* SpecAuth: every route with every outcome, one refresh in flight.        *)
(***************************************************************************)
NextAuth ==
    \/ \E e \in EmailInputs, pw \in PasswordInputs : LoginRejected(e, pw)
    \/ \E e \in EmailInputs, pw \in PasswordInputs : Login(e, pw)
    \/ \E t \in RefreshTokenInputs : RefreshRejected(t)
    \/ \E t \in RefreshTokenInputs : RefreshValidate("p1", t)
    \/ RefreshUpdate("p1", FALSE)
    \/ \E path \in PathInputs, c \in AccessTokenInputs,
          h \in AccessTokenInputs : Authenticate(path, c, h)
    \/ \E c \in AccessTokenInputs, r \in RefreshTokenInputs :
          Logout(c, None, r, FALSE)
    \/ \E c \in AccessTokenInputs, r \in RefreshTokenInputs :
          RevokeAllSessions(c, None, r)
    \/ \E u \in Users : BanUser(u)
    \/ \E u \in Users : UserBanMutation(Admin, u)
    \/ \E u \in Users : UnbanUser(Admin, u)
    \/ \E d \in TickDeltas : Tick(d)

(***************************************************************************)
(* SpecSessions: the lifetime of a refresh-token hash.  Only requests that *)
(* pass; one revoked and one rotated hash are followed.                    *)
(***************************************************************************)
NextSessions ==
    \/ \E e \in EmailInputs, pw \in PasswordInputs : Login(e, pw)
    \/ \E t \in RefreshTokenInputs : RefreshValidate("p1", t)
    \/ \E f \in BOOLEAN : RefreshUpdate("p1", f)
    \/ \E c \in AccessTokenInputs, r \in RefreshTokenInputs, f \in BOOLEAN :
          Logout(c, None, r, f)
    \/ \E c \in AccessTokenInputs, r \in RefreshTokenInputs :
          RevokeAllSessions(c, None, r)
    \/ \E u \in Users : BanUser(u)
    \/ \E u \in Users : UserBanMutation(Admin, u)
    \/ \E u \in Users : UnbanUser(Admin, u)
    \/ \E d \in TickDeltas : Tick(d)

(***************************************************************************)
(* SpecRace: two refresh requests in flight at the same time.              *)
(***************************************************************************)
NextRace ==
    \/ \E e \in EmailInputs, pw \in PasswordInputs : Login(e, pw)
    \/ \E p \in Procs, t \in RefreshTokenInputs : RefreshValidate(p, t)
    \/ \E p \in Procs : RefreshUpdate(p, FALSE)
    \/ \E c \in AccessTokenInputs, r \in RefreshTokenInputs :
          Logout(c, None, r, FALSE)
    \/ \E d \in TickDeltas : Tick(d)

(***************************************************************************)
(* SpecRefresh: POST /refresh-token with both of its outcomes, next to the *)
(* requests that issue, revoke and rotate refresh tokens; one revoked and  *)
(* one rotated hash are followed.                                          *)
(***************************************************************************)
NextRefresh ==
    \/ \E e \in {"u1@x.io", "u2@x.io"}, pw \in {"pw1", "pw2"} : Login(e, pw)
    \/ \E t \in RefreshTokenInputs : RefreshRejected(t)
    \/ \E t \in RefreshTokenInputs : RefreshValidate("p1", t)
    \/ \E f \in BOOLEAN : RefreshUpdate("p1", f)
    \/ \E c \in AccessTokenInputs, r \in RefreshTokenInputs, f \in BOOLEAN :
          Logout(c, None, r, f)
    \/ BanUser("u1")
    \/ \E d \in TickDeltas : Tick(d)

(***************************************************************************)
(* rest/auth.ts: POST /revoke-all-sessions as its two database calls, the  *)
(* getUserById of authenticateToken and the UPDATE of                      *)
(* revokeAllUserDevices; other requests run between them.  loc[p].device   *)
(* remembers the row that held the hash of the presented refresh token     *)
(* when the request arrived (0 when there was none); the handler does not  *)
(* read it.                                                                *)
(***************************************************************************)
RevokeAllAuthenticate(p, cookie, header, refreshCookie) ==
    /\ UNCHANGED <<rbacVars, taskVars>>
    /\ pc[p] = "idle"
    /\ LET a == authenticateToken("/api/auth/revoke-all-sessions",
                                  cookie, header)
           current == IF refreshCookie = None THEN {}
                      ELSE {d \in DeviceIds :
                               devices[d].refresh_token_hash =
                                   hashRefreshToken(refreshCookie[1])}
       IN  /\ a.next
           /\ \E d \in IF current = {} THEN {0} ELSE current :
                 loc' = [loc EXCEPT ![p] =
                            [user |-> a.identity,
                             refreshToken |-> refreshCookie,
                             device |-> d]]
    /\ pc' = [pc EXCEPT ![p] = "revokeAll:update"]
    /\ resp' = NoResp
    /\ UNCHANGED <<users, devices, now, ticks, revokedHashes, rotatedHashes>>

RevokeAllUpdate(p) ==
    /\ UNCHANGED <<rbacVars, taskVars>>
    /\ pc[p] = "revokeAll:update"
    /\ LET userId == loc[p].user[1].userId
           exclude == IF loc[p].refreshToken # None
                      THEN Some(hashRefreshToken(loc[p].refreshToken[1]))
                      ELSE None
       IN  /\ devices' = revokeAllUserDevices(userId, exclude)
           /\ resp' = [Reply(p, "revokeAll", 200,
                             "Revoked ${revokedCount} other sessions")
                          EXCEPT !.identity = loc[p].user,
                                 !.presented = loc[p].refreshToken,
                                 !.count = Cardinality(
                                     revokeAllRows(userId, exclude))]
    /\ pc' = [pc EXCEPT ![p] = "idle"]
    /\ loc' = [loc EXCEPT ![p] = NoLoc]
    /\ UNCHANGED <<users, now, ticks, revokedHashes, rotatedHashes>>

(***************************************************************************)
(* SpecRevokeAll: a revoke-all-sessions request in slot p2 next to a       *)
(* refresh request in slot p1.                                             *)
(***************************************************************************)
NextRevokeAll ==
    \/ \E e \in {"u1@x.io", "u2@x.io"}, pw \in {"pw1", "pw2"} : Login(e, pw)
    \/ \E t \in RefreshTokenInputs : RefreshValidate("p1", t)
    \/ RefreshUpdate("p1", FALSE)
    \/ \E c \in AccessTokenInputs, r \in RefreshTokenInputs :
          RevokeAllAuthenticate("p2", c, None, r)
    \/ RevokeAllUpdate("p2")
    \/ \E d \in TickDeltas : Tick(d)

(***************************************************************************)
(* ProjectService.getProject, query by query: the SELECT of the project    *)
(* with the caller's workspace role, getProjectMemberRole, and the INSERT  *)
(* ... ON CONFLICT (project_id, user_id) DO NOTHING.  Other calls run      *)
(* between the queries.                                                    *)
(***************************************************************************)
\* SELECT p.*, wm.role AS workspace_role ... WHERE p.id = $1
GetProjectSelect(p, projectId, userId) ==
    /\ UNCHANGED <<authVars, taskVars>>
    /\ call[p].at = "idle"
    /\ IF getProjectById(projectId) = None
       THEN /\ call' = call
            /\ answer' = [op |-> "getProject",
                          args |-> <<projectId, userId>>, result |-> None]
       ELSE LET workspace_role ==
                    getWorkspaceMemberRole(
                        getProjectById(projectId)[1].workspace_id, userId)
            IN  IF workspace_role = None
                THEN /\ call' = call
                     /\ answer' = [op |-> "getProject",
                                   args |-> <<projectId, userId>>,
                                   result |-> Some(projectId)]
                ELSE /\ call' = [call EXCEPT ![p] =
                           [NoCall EXCEPT !.at = "getProject:memberRole",
                                          !.projectId = projectId,
                                          !.userId = userId]]
                     /\ answer' = NoAnswer
    /\ UNCHANGED <<tables, nextId>>

\* !await this.getProjectMemberRole(projectId, userId)
GetProjectMemberRole(p) ==
    /\ UNCHANGED <<authVars, taskVars>>
    /\ call[p].at = "getProject:memberRole"
    /\ IF getProjectMemberRole(call[p].projectId, call[p].userId) # None
       THEN /\ call' = [call EXCEPT ![p] = NoCall]
            /\ answer' = [op |-> "getProject",
                          args |-> <<call[p].projectId, call[p].userId>>,
                          result |-> Some(call[p].projectId)]
       ELSE /\ call' = [call EXCEPT ![p].at = "getProject:insert"]
            /\ answer' = NoAnswer
    /\ UNCHANGED <<tables, nextId>>

\* variant whose INSERT has no ON CONFLICT clause and no unique key
InsertProjectViewerUnconditionally(projectId, userId) ==
    project_members \cup {[project_id |-> projectId, user_id |-> userId,
                           role |-> "VIEWER"]}

\* INSERT INTO project_members ... VALUES ($1, $2, 'VIEWER')
\* ON CONFLICT (project_id, user_id) DO NOTHING
InsertProjectViewer(projectId, userId) ==
    IF \E m \in project_members :
           m.project_id = projectId /\ m.user_id = userId
    THEN project_members
    ELSE project_members \cup {[project_id |-> projectId, user_id |-> userId,
                                role |-> "VIEWER"]}

GetProjectInsert(p) ==
    /\ UNCHANGED <<authVars, taskVars>>
    /\ call[p].at = "getProject:insert"
    /\ project_members' = InsertProjectViewer(call[p].projectId,
                                              call[p].userId)
    /\ call' = [call EXCEPT ![p] = NoCall]
    /\ answer' = [op |-> "getProject",
                  args |-> <<call[p].projectId, call[p].userId>>,
                  result |-> Some(call[p].projectId)]
    /\ UNCHANGED <<workspaces, workspace_members, projects, nextId>>

(***************************************************************************)
(* SpecProvision: getProject calls in two request slots, next to the role  *)
(* update of a project member and the membership calls of the workspace.   *)
(***************************************************************************)
NextProvision ==
    \/ nextId.workspaces = 1 /\ AllQuiet /\ CreateWorkspace("p1", " Team ", "u1")
    \/ InsertWorkspace("p1", FALSE)
    \/ InsertOwner("p1", FALSE)
    \/ CommitWorkspace("p1", FALSE)
    \/ AllQuiet /\ CreateProject("p1", 1, "u1")
    \/ InsertProject("p1", FALSE)
    \/ InsertLead("p1", FALSE)
    \/ CommitProject("p1", FALSE)
    \/ \E r \in {"MEMBER", "VIEWER"} :
          AllQuiet /\ AddWorkspaceMember("p1", 1, "u2", r, "u1")
    \/ AddMemberSelectExisting("p1")
    \/ AddMemberInsert("p1")
    \/ RemoveWorkspaceMember("p1", 1, "u2", "u1")
    \/ RemoveMemberDelete("p1")
    \/ \E p \in Procs, pr \in ProjectIds, u \in AllUsers :
          GetProjectSelect(p, pr, u)
    \/ \E p \in Procs : GetProjectMemberRole(p)
    \/ \E p \in Procs : GetProjectInsert(p)
    \/ \E p \in Procs, pr \in ProjectIds, r \in ProjectRoles :
          UpdateProjectMemberRole(p, pr, "u2", r, "u1")
    \/ \E p \in Procs : UpdateProjectRoleUpdate(p)

(***************************************************************************)
(* database/client.ts: DatabaseClient.transaction, statement by statement. *)
(* call[p].log is the sequence of statements sent on the pooled            *)
(* connection, call[p].caught the error that entered the catch block,      *)
(* call[p].thrown the error that leaves the method.                        *)
(***************************************************************************)
\* const client = await this.pool.connect()
TransactionConnect(p) ==
    /\ UNCHANGED <<authVars, taskVars>>
    /\ call[p].at = "idle"
    /\ call' = [call EXCEPT ![p] = [NoCall EXCEPT !.at = "transaction:begin"]]
    /\ answer' = NoAnswer
    /\ UNCHANGED <<tables, nextId>>

\* await client.query('BEGIN')
TransactionBegin(p, fails) ==
    /\ UNCHANGED <<authVars, taskVars>>
    /\ call[p].at = "transaction:begin"
    /\ call' = [call EXCEPT
          ![p].log = Append(@, "BEGIN"),
          ![p].caught = IF fails THEN Some("BEGIN failed") ELSE None,
          ![p].thrown = IF fails THEN Some("BEGIN failed") ELSE None,
          ![p].at = IF fails THEN "transaction:rollback"
                    ELSE "transaction:callback"]
    /\ answer' = NoAnswer
    /\ UNCHANGED <<tables, nextId>>

\* const result = await callback(client)
TransactionCallback(p, throws) ==
    /\ UNCHANGED <<authVars, taskVars>>
    /\ call[p].at = "transaction:callback"
    /\ call' = [call EXCEPT
          ![p].caught = IF throws THEN Some("callback threw") ELSE None,
          ![p].thrown = IF throws THEN Some("callback threw") ELSE None,
          ![p].at = IF throws THEN "transaction:rollback"
                    ELSE "transaction:commit"]
    /\ answer' = NoAnswer
    /\ UNCHANGED <<tables, nextId>>

\* await client.query('COMMIT'); return result
TransactionCommit(p, fails) ==
    /\ UNCHANGED <<authVars, taskVars>>
    /\ call[p].at = "transaction:commit"
    /\ call' = [call EXCEPT
          ![p].log = Append(@, "COMMIT"),
          ![p].caught = IF fails THEN Some("COMMIT failed") ELSE None,
          ![p].thrown = IF fails THEN Some("COMMIT failed") ELSE None,
          ![p].at = IF fails THEN "transaction:rollback"
                    ELSE "transaction:release"]
    /\ answer' = NoAnswer
    /\ UNCHANGED <<tables, nextId>>

\* catch (error) { await client.query('ROLLBACK'); throw error; }
\* an error thrown by ROLLBACK leaves the catch block in place of error
TransactionRollback(p, fails) ==
    /\ UNCHANGED <<authVars, taskVars>>
    /\ call[p].at = "transaction:rollback"
    /\ call' = [call EXCEPT
          ![p].log = Append(@, "ROLLBACK"),
          ![p].thrown = IF fails THEN Some("ROLLBACK failed") ELSE @,
          ![p].at = "transaction:release"]
    /\ answer' = NoAnswer
    /\ UNCHANGED <<tables, nextId>>

\* finally { client.release(); } and the method returns or throws
TransactionRelease(p) ==
    /\ UNCHANGED <<authVars, taskVars>>
    /\ call[p].at = "transaction:release"
    /\ call' = [call EXCEPT ![p] = NoCall]
    /\ answer' = [op |-> "transaction",
                  args |-> <<call[p].log, call[p].released + 1,
                             call[p].caught>>,
                  result |-> call[p].thrown]
    /\ UNCHANGED <<tables, nextId>>

(***************************************************************************)
(* SpecTransaction: two callers of db.transaction, each on its own pooled  *)
(* connection; every statement can fail.                                   *)
(***************************************************************************)
NextTransaction ==
    \/ \E p \in Procs : TransactionConnect(p)
    \/ \E p \in Procs, f \in BOOLEAN : TransactionBegin(p, f)
    \/ \E p \in Procs, f \in BOOLEAN : TransactionCallback(p, f)
    \/ \E p \in Procs, f \in BOOLEAN : TransactionCommit(p, f)
    \/ \E p \in Procs, f \in BOOLEAN : TransactionRollback(p, f)
    \/ \E p \in Procs : TransactionRelease(p)

vars == <<authVars, rbacVars, taskVars>>

Init == InitAuth /\ InitRbac /\ InitTasks

SpecAuth == Init /\ [][NextAuth]_vars
SpecSessions == Init /\ [][NextSessions]_vars
SpecRace == Init /\ [][NextRace]_vars
SpecRbac == Init /\ [][NextRbac]_vars
SpecMembers == Init /\ [][NextMembers]_vars
SpecAccess == Init /\ [][NextAccess]_vars
SpecRoles == Init /\ [][NextRoles]_vars
SpecTasks == Init /\ [][NextTasks]_vars
SpecTaskRace == Init /\ [][NextTaskRace]_vars
SpecOwners == Init /\ [][NextOwners]_vars
SpecInheritance == Init /\ [][NextInheritance]_vars
SpecRefresh == Init /\ [][NextRefresh]_vars
SpecTransaction == Init /\ [][NextTransaction]_vars
SpecProvision == Init /\ [][NextProvision]_vars
SpecRevokeAll == Init /\ [][NextRevokeAll]_vars

(***************************************************************************)
(* Properties of the session store.                                        *)
(***************************************************************************)
\* a row that validateRefreshToken(h) may return
Qualifies(d, h) ==
    /\ devices[d].refresh_token_hash = h
    /\ devices[d].is_revoked = FALSE
    /\ users[devices[d].user_id].global_status # "BANNED"

\* C1: once revokeUserDevice(h) has completed, validateRefreshToken(h)
\* returns null in every later state, whatever login, refresh, logout,
\* revoke-all, ban and unban ran in between.
C1_RevokedHashStaysInvalid ==
    \A h \in revokedHashes : validateRefreshToken(h) = {None}

C1_Witness ==
    \E h \in revokedHashes :
        /\ \E d \in DeviceIds : devices[d].refresh_token_hash = h
        /\ ticks > 0

\* C2: once a refresh has rotated a session from h_old to a new hash,
\* validateRefreshToken(h_old) returns null in every later state.
C2_RotatedHashStaysInvalid ==
    \A h \in rotatedHashes : validateRefreshToken(h) = {None}

C2_Witness ==
    \E h \in rotatedHashes : h \notin StoredHashes

\* C3: validateRefreshToken(h) returns a (device, user) pair only for a row
\* with refresh_token_hash = h, is_revoked = false and an owner who is not
\* BANNED, it returns null when no such row exists, and it writes nothing.
C3_ValidateRefreshToken ==
    [][/\ \A p \in Procs :
            pc[p] = "idle" /\ pc'[p] = "refresh:updateDevice" =>
                /\ Qualifies(loc'[p].device,
                             hashRefreshToken(loc'[p].refreshToken[1]))
                /\ loc'[p].user[1].userId = devices[loc'[p].device].user_id
                /\ UNCHANGED <<users, devices>>
       /\ resp'.message = "Invalid or expired refresh token" =>
                /\ \A d \in DeviceIds :
                      ~Qualifies(d, hashRefreshToken(resp'.presented[1]))
                /\ UNCHANGED <<users, devices>>]_vars

C3_Witness ==
    /\ pc["p1"] = "refresh:updateDevice"
    /\ \E d \in DeviceIds : devices[d].is_revoked

C3_WitnessNull ==
    /\ resp.message = "Invalid or expired refresh token"
    /\ \E d \in DeviceIds :
          devices[d].refresh_token_hash
              = hashRefreshToken(resp.presented[1])

\* C4: while a user's global_status is BANNED, validateUserCredentials
\* returns null for that user even with the correct password, and a login
\* request handled in that state adds no user_devices row for that user and
\* hands out no tokens for them.
C4_BannedCannotLogin ==
    /\ [](\A u \in Users : users[u].global_status = "BANNED" =>
             validateUserCredentials(EmailOf[u], PasswordOf[u]) = None)
    /\ [][\A u \in Users : users[u].global_status = "BANNED" =>
             /\ \A d \in DOMAIN devices' \ DOMAIN devices :
                   devices'[d].user_id # u
             /\ resp'.op = "login" /\ resp'.tokens # None =>
                   resp'.tokens[1].refreshToken.userId # u]_vars

C4_Witness ==
    /\ resp.op = "login" /\ resp.status = 401
    /\ \E u \in Users :
          /\ users[u].global_status = "BANNED"
          /\ resp.presented =
                Some([email |-> EmailOf[u], password |-> PasswordOf[u]])

\* C5: authenticateToken never calls next with an identity attached for a
\* request whose correctly signed, unexpired access token belongs to a user
\* who is BANNED at that moment, whatever the token's globalStatus claim.
C5_BannedNeverAuthenticated ==
    resp.op = "authenticateToken" /\ resp.identity # None =>
        users[resp.identity[1].userId].global_status # "BANNED"

C5_Witness ==
    /\ resp.op = "authenticateToken"
    /\ resp.status = 403
    /\ \E rt \in IssuedRefreshTokens :
          /\ AccessTokenOf(rt).globalStatus = "ACTIVE"
          /\ users[rt.userId].global_status = "BANNED"
          /\ verifyAccessToken(AccessTokenOf(rt), now).ok

\* C6: when two refresh requests that presented the same token complete one
\* after the other, at most one of the two refresh tokens they returned
\* still validates: the other fails on its next use.
C6_ConcurrentRefreshOneWinner ==
    [][(/\ resp.op = "refresh" /\ resp.status = 200
        /\ resp'.op = "refresh" /\ resp'.status = 200
        /\ resp.proc # resp'.proc
        /\ resp.presented = resp'.presented)
       => \E loser \in {resp.tokens[1].refreshToken,
                        resp'.tokens[1].refreshToken} :
             \A d \in DeviceIds :
                ~(/\ devices'[d].refresh_token_hash = hashRefreshToken(loser)
                  /\ devices'[d].is_revoked = FALSE)]_vars

C6_Witness ==
    /\ pc["p1"] = "refresh:updateDevice"
    /\ pc["p2"] = "refresh:updateDevice"
    /\ loc["p1"].refreshToken = loc["p2"].refreshToken

(***************************************************************************)
(* Properties of workspaces and projects.                                  *)
(***************************************************************************)
OwnerRow(w) ==
    [workspace_id |-> w.id, user_id |-> w.created_by, role |-> "OWNER"]

LeadRow(pr) ==
    [project_id |-> pr.id, user_id |-> pr.created_by,
     role |-> "PROJECT_LEAD"]

\* C7: under any interleaving of createWorkspace, addWorkspaceMember,
\* removeWorkspaceMember and updateWorkspaceMemberRole, every workspace
\* has at least one workspace_members row with role OWNER.
C7_EveryWorkspaceHasOwner ==
    \A w \in workspaces :
        \E m \in workspace_members :
            m.workspace_id = w.id /\ m.role = "OWNER"

C7_Witness ==
    /\ call["p1"].at = "removeWorkspaceMember:delete"
    /\ call["p2"].at = "removeWorkspaceMember:delete"
    /\ call["p1"].workspaceId = call["p2"].workspaceId
    /\ call["p1"].userId = call["p2"].requesterId
    /\ call["p2"].userId = call["p1"].requesterId

\* C8: a successful createWorkspace(input, A) adds exactly one workspaces
\* row W and exactly one workspace_members row (W, A, OWNER), and changes
\* no other row of any table.
C8_CreateWorkspaceFrame ==
    [][answer'.op = "createWorkspace" =>
          \E w \in workspaces' \ workspaces :
             /\ workspaces' = workspaces \cup {w}
             /\ w.id = answer'.result[1]
             /\ w.created_by = answer'.args[1]
             /\ OwnerRow(w) \notin workspace_members
             /\ workspace_members' = workspace_members \cup {OwnerRow(w)}
             /\ \A m \in workspace_members : m.workspace_id # w.id
             /\ UNCHANGED <<projects, project_members>>]_vars

C8_Witness ==
    /\ answer.op = "createWorkspace"
    /\ \E w \in workspaces :
          /\ w.id # answer.result[1]
          /\ \E m \in workspace_members :
                m.workspace_id = w.id /\ m.role # "OWNER"

\* C9 as stated: in every state, every workspaces row has its creator's
\* OWNER row and every projects row has its creator's PROJECT_LEAD row.
C9_CreatorKeepsRootRole ==
    /\ \A w \in workspaces : OwnerRow(w) \in workspace_members
    /\ \A pr \in projects : LeadRow(pr) \in project_members

\* C9, amended: a workspaces row becomes visible together with its
\* creator's OWNER row and a projects row together with its creator's
\* PROJECT_LEAD row, in one step; a transaction that ends without COMMIT
\* leaves every table as it was.
C9_CreationIsAtomic ==
    [][/\ \A w \in workspaces' \ workspaces :
             OwnerRow(w) \in workspace_members'
       /\ \A pr \in projects' \ projects :
             LeadRow(pr) \in project_members'
       /\ \A p \in Procs :
             (/\ call[p].inserted # <<>>
              /\ call'[p] = NoCall
              /\ answer' = NoAnswer) => UNCHANGED tables]_vars

C9_Witness ==
    /\ nextId.workspaces > 1
    /\ nextId.projects > 1
    /\ workspaces # {}
    /\ projects = {}
    /\ \A p \in Procs : call[p] = NoCall

\* C10: for a user with a project_members row of role r, hasProjectAccess
\* answers true exactly when r is at least the minimum role in the order
\* PROJECT_LEAD > CONTRIBUTOR > VIEWER, for all nine pairs of roles.
C10_ProjectRoleOrder ==
    answer.op = "hasProjectAccess" =>
        LET r == getProjectMemberRole(answer.args[1], answer.args[2])
        IN  r # None =>
               answer.result[1]
                   = jsGreaterEq(projectRoleHierarchy(r[1]),
                                 projectRoleHierarchy(answer.args[3]))

C10_Witness ==
    /\ answer.op = "hasProjectAccess"
    /\ getProjectMemberRole(answer.args[1], answer.args[2])
           = Some("CONTRIBUTOR")
    /\ answer.args[3] = "VIEWER"

(***************************************************************************)
(* Properties of the access decision for users without a project row.      *)
(***************************************************************************)
ViewerRow(pr, u) == [project_id |-> pr, user_id |-> u, role |-> "VIEWER"]

\* C11: for a user without a project_members row, hasProjectAccess (either
\* definition) answers true only when the minimum role is VIEWER and the
\* user has at least VIEWER access to the project's workspace; it answers
\* false for the minimum roles CONTRIBUTOR and PROJECT_LEAD.
C11_WorkspaceConfersOnlyViewer ==
    (/\ answer.op \in {"hasProjectAccess", "hasProjectAccess2"}
     /\ getProjectMemberRole(answer.args[1], answer.args[2]) = None
     /\ answer.result = Some(TRUE))
    => /\ answer.args[3] = "VIEWER"
       /\ projectAccessViaWorkspace(answer.args[1], answer.args[2])

C11_Witness ==
    /\ answer.op = "hasProjectAccess2"
    /\ answer.args[3] = "PROJECT_LEAD"
    /\ getProjectMemberRole(answer.args[1], answer.args[2]) = None
    /\ getProjectById(answer.args[1]) # None
    /\ getWorkspaceMemberRole(getProjectById(answer.args[1])[1].workspace_id,
                              answer.args[2]) = Some("VIEWER")

\* the case of C12: u holds MEMBER in the workspace of project pr and has
\* no project_members row for pr
MemberWithoutProjectRow(pr, u) ==
    /\ getProjectById(pr) # None
    /\ getWorkspaceMemberRole(getProjectById(pr)[1].workspace_id, u)
          = Some("MEMBER")
    /\ getProjectMemberRole(pr, u) = None

\* C12 as stated: a workspace MEMBER without a project_members row passes
\* hasProjectAccess(p, u, VIEWER), and after that check the row
\* (p, u, VIEWER) exists in project_members.
C12_CheckMaterialisesViewerRow ==
    [][\A pr \in ProjectIds, u \in Users :
          (/\ MemberWithoutProjectRow(pr, u)
           /\ answer'.op = "hasProjectAccess"
           /\ answer'.args = <<pr, u, "VIEWER">>)
          => /\ answer'.result = Some(TRUE)
             /\ ViewerRow(pr, u) \in project_members']_vars

\* C12, amended: a workspace MEMBER without a project_members row passes
\* hasProjectAccess(p, u, VIEWER); the check itself writes no row; a
\* getProject(p, u) in that state adds the row (p, u, VIEWER) to
\* project_members and changes no other row.
C12_GetProjectMaterialisesViewerRow ==
    [][\A pr \in ProjectIds, u \in Users :
          MemberWithoutProjectRow(pr, u) =>
             /\ (/\ answer'.op = "hasProjectAccess"
                 /\ answer'.args = <<pr, u, "VIEWER">>)
                => /\ answer'.result = Some(TRUE)
                   /\ UNCHANGED tables
             /\ GetProject(pr, u)
                => /\ project_members'
                         = project_members \cup {ViewerRow(pr, u)}
                   /\ UNCHANGED <<workspaces, workspace_members, projects>>
       ]_vars

C12_Witness ==
    /\ answer.op = "hasProjectAccess"
    /\ answer.result = Some(TRUE)
    /\ answer.args[3] = "VIEWER"
    /\ MemberWithoutProjectRow(answer.args[1], answer.args[2])

(***************************************************************************)
(* Properties of the role updates.                                         *)
(***************************************************************************)
\* u is the one user holding PROJECT_LEAD in project pr
SoleProjectLead(pr, u) ==
    {m.user_id : m \in {r \in project_members :
                            r.project_id = pr /\ r.role = "PROJECT_LEAD"}}
        = {u}

\* C18: a request by the sole PROJECT_LEAD of a project to change their
\* own project role never reaches the UPDATE; it is answered with
\* UserInputError and project_members stays as it was.
C18_SoleLeadCannotChangeOwnRole ==
    [][\A pr \in ProjectIds, u \in Users :
          SoleProjectLead(pr, u) =>
             /\ \A p \in Procs :
                   ~(/\ call[p].at = "idle"
                     /\ call'[p].at = "updateProjectMemberRole:update"
                     /\ call'[p].projectId = pr
                     /\ call'[p].userId = u
                     /\ call'[p].requesterId = u)
             /\ (/\ answer'.op = "updateProjectMemberRole"
                 /\ answer'.args[1] = pr
                 /\ answer'.args[2] = u
                 /\ answer'.args[4] = u)
                => /\ answer'.result = Some("UserInputError")
                   /\ UNCHANGED project_members]_vars

C18_Witness ==
    /\ answer.op = "updateProjectMemberRole"
    /\ answer.args[2] = answer.args[4]
    /\ answer.args[3] = "VIEWER"
    /\ answer.result = Some("UserInputError")
    /\ SoleProjectLead(answer.args[1], answer.args[2])
    /\ \E m \in project_members :
          m.project_id = answer.args[1] /\ m.user_id # answer.args[2]

\* C19: in every state, whatever the interleaving of updateProjectMemberRole
\* requests, every project has a project_members row of role PROJECT_LEAD.
C19_EveryProjectHasLead ==
    \A pr \in projects :
        \E m \in project_members :
            m.project_id = pr.id /\ m.role = "PROJECT_LEAD"

C19_Witness ==
    /\ call["p1"].at = "updateProjectMemberRole:update"
    /\ call["p2"].at = "updateProjectMemberRole:update"
    /\ call["p1"].projectId = call["p2"].projectId
    /\ call["p1"].userId = call["p1"].requesterId
    /\ call["p2"].userId = call["p2"].requesterId
    /\ call["p1"].userId # call["p2"].userId
    /\ call["p1"].role # "PROJECT_LEAD"
    /\ call["p2"].role # "PROJECT_LEAD"

\* C20 as stated: an updateWorkspaceMemberRole request whose target holds
\* OWNER is answered with UserInputError and leaves workspace_members
\* unchanged, whoever the requester is and whatever the new role is.
C20_OwnerTargetIsUserInputError ==
    [][/\ \A p \in Procs :
             (/\ call[p].at = "updateWorkspaceMemberRole:selectTarget"
              /\ call'[p] # call[p]
              /\ getWorkspaceMemberRole(call[p].workspaceId, call[p].userId)
                    = Some("OWNER"))
             => /\ answer' = Thrown("updateWorkspaceMemberRole", <<>>,
                                    "UserInputError")
                /\ call'[p] = NoCall
                /\ UNCHANGED workspace_members
       /\ (/\ answer'.op = "updateWorkspaceMemberRole"
           /\ answer'.args # <<>>
           /\ getWorkspaceMemberRole(answer'.args[1], answer'.args[2])
                 = Some("OWNER"))
          => /\ answer'.result = Some("UserInputError")
             /\ UNCHANGED workspace_members]_vars

\* C20, amended: an updateWorkspaceMemberRole request whose target holds
\* OWNER leaves workspace_members unchanged; it is answered with
\* ForbiddenError when the requester is not an OWNER of the workspace and
\* with UserInputError when the requester is one (the target themself
\* included), whatever the new role is.
C20_OwnerTargetIsRejected ==
    [][/\ \A p \in Procs :
             (/\ call[p].at = "updateWorkspaceMemberRole:selectTarget"
              /\ call'[p] # call[p]
              /\ getWorkspaceMemberRole(call[p].workspaceId, call[p].userId)
                    = Some("OWNER"))
             => /\ answer' = Thrown("updateWorkspaceMemberRole", <<>>,
                                    "UserInputError")
                /\ call'[p] = NoCall
                /\ UNCHANGED workspace_members
       /\ (/\ answer'.op = "updateWorkspaceMemberRole"
           /\ answer'.args # <<>>
           /\ getWorkspaceMemberRole(answer'.args[1], answer'.args[2])
                 = Some("OWNER"))
          => /\ answer'.result = Some("ForbiddenError")
             /\ getWorkspaceMemberRole(answer'.args[1], answer'.args[4])
                   # Some("OWNER")
             /\ UNCHANGED workspace_members
       /\ \A p \in Procs :
             (/\ call[p].at = "idle"
              /\ call'[p].at = "updateWorkspaceMemberRole:selectTarget")
             => getWorkspaceMemberRole(call'[p].workspaceId,
                                       call'[p].requesterId) = Some("OWNER")
      ]_vars

C20_Witness ==
    /\ answer = Thrown("updateWorkspaceMemberRole", <<>>, "UserInputError")
    /\ \E m \in workspace_members : m.role # "OWNER"

(***************************************************************************)
(* Properties of tasks.                                                    *)
(***************************************************************************)
\* the role u holds in project pr: the role of the project_members row, and
\* VIEWER for a member of the project's workspace who has no row
EffectiveProjectRole(pr, u) ==
    IF getProjectMemberRole(pr, u) # None THEN getProjectMemberRole(pr, u)
    ELSE IF projectAccessViaWorkspace(pr, u) THEN Some("VIEWER")
    ELSE None

MayCreateTasks(pr, u) ==
    EffectiveProjectRole(pr, u) \in {Some("CONTRIBUTOR"), Some("PROJECT_LEAD")}

\* createTask in slot p passes its checks
CreateTaskAdmitted(p) ==
    tcall[p].at = "idle" /\ tcall'[p].at = "createTask:transaction"

\* createTask in slot p throws before its transaction
CreateTaskRefused(p) ==
    /\ tcall[p].at = "idle"
    /\ tcall' = tcall
    /\ answer'.op = "createTask"

\* C13: createTask(p, u, ...) is admitted only when u's effective role in
\* p is CONTRIBUTOR or PROJECT_LEAD, and is refused with ForbiddenError,
\* writing no row, only when it is neither: a caller with VIEWER access
\* (explicit or through the workspace) is refused, the PROJECT_LEAD and the
\* CONTRIBUTORs are not.
C13_CreateTaskNeedsContributor ==
    [][\A p \in Procs :
          /\ CreateTaskAdmitted(p) =>
                MayCreateTasks(tcall'[p].projectId, tcall'[p].userId)
          /\ (CreateTaskRefused(p) /\ answer'.result = Some("ForbiddenError"))
                => /\ ~MayCreateTasks(answer'.args[1], answer'.args[3])
                   /\ UNCHANGED <<tasks, task_assignments, notifications>>
      ]_vars

\* the project's PROJECT_LEAD has been refused
C13_Witness ==
    /\ answer.op = "createTask"
    /\ Len(answer.args) = 3
    /\ answer.result = Some("ForbiddenError")
    /\ getProjectMemberRole(answer.args[1], answer.args[3])
          = Some("PROJECT_LEAD")

\* slot p passes the checks of createTask or updateTask with a list of
\* assignees
AssigneesAdmitted(p) ==
    /\ tcall[p].at = "idle"
    /\ tcall'[p].at \in {"createTask:transaction", "updateTask:transaction"}
    /\ tcall'[p].assignedToIds # None

\* the COMMIT in slot p makes rows of task_assignments visible
AssignmentsCommitted(p) ==
    /\ tcall[p].at \in {"createTask:commit", "updateTask:commit"}
    /\ tcall'[p].committed
    /\ tcall[p].assignments # None

\* C14: createTask and updateTask go on to their transaction only when
\* every proposed assignee passes hasProjectAccess(project, assignee,
\* VIEWER), so every task_assignments row that becomes visible is for a
\* user who passes it at that moment.
C14_AssigneesHaveProjectAccess ==
    [][\A p \in Procs :
          /\ AssigneesAdmitted(p) =>
                \A u \in Range(tcall'[p].assignedToIds[1]) :
                   hasProjectAccess(tcall'[p].projectId, u, "VIEWER")
          /\ AssignmentsCommitted(p) =>
                \A u \in tcall[p].assignments[1] :
                   hasProjectAccess(tcall[p].projectId, u, "VIEWER")
      ]_vars

\* an updateTask has committed an assignment of a user who has no role in
\* the project and is not a member of its workspace
C14_Witness ==
    \E p \in Procs :
        /\ tcall[p].at = "updateTask:publish"
        /\ tcall[p].committed
        /\ tcall[p].assignments # None
        /\ \E u \in tcall[p].assignments[1] :
              /\ EffectiveProjectRole(tcall[p].projectId, u) = None
              /\ [task_id |-> tcall[p].taskId, user_id |-> u]
                    \in task_assignments

\* the users assigned to task t in a set of task_assignments rows
AssigneesIn(rows, t) == {a.user_id : a \in {b \in rows : b.task_id = t}}

\* the number of assignment notifications of task t addressed to u
NotificationsOf(bag, t, u) ==
    CopiesIn([recipient_id |-> u, related_entity_id |-> t], bag)

\* the COMMIT in slot p makes the writes of a createTask or an updateTask
\* visible
TaskWriteCommitted(p) ==
    /\ tcall[p].at \in {"createTask:commit", "updateTask:commit"}
    /\ tcall'[p].committed

\* C15: a committed createTask or updateTask that takes the assignees of a
\* task from Old (empty for createTask) to New adds exactly one assignment
\* notification for every user in New \ Old and none for any other user.
C15_OneNotificationPerAddedAssignee ==
    [][\A p \in Procs :
          TaskWriteCommitted(p) =>
             \A u \in AllUsers :
                NotificationsOf(notifications', tcall[p].taskId, u)
                   - NotificationsOf(notifications, tcall[p].taskId, u)
                = IF u \in AssigneesIn(task_assignments', tcall[p].taskId)
                          \ AssigneesIn(task_assignments, tcall[p].taskId)
                  THEN 1 ELSE 0
      ]_vars

\* an updateTask is about to commit the replacement of {X, Y} by {Y, Z},
\* with a notification for Z only
C15_Witness ==
    \E p \in Procs : \E X, Y, Z \in AllUsers :
        /\ X # Y /\ Y # Z /\ X # Z
        /\ tcall[p].at = "updateTask:commit"
        /\ ~tcall[p].aborted
        /\ AssigneesIn(task_assignments, tcall[p].taskId) = {X, Y}
        /\ tcall[p].assignments = Some({Y, Z})
        /\ tcall[p].notify = {Z}

UpdateTaskReturns(p) ==
    tcall[p].at = "updateTask:publish" /\ tcall'[p].at = "idle"

\* C17: an updateTask that publishes a task-status event has committed its
\* transaction, and the status it wrote differs from the status the task
\* had immediately before its UPDATE; this holds for concurrent updateTask
\* calls on the same task as well.
C17_PublishesOnlyCommittedStatusChange ==
    [][\A p \in Procs :
          (UpdateTaskReturns(p) /\ answer'.result[1].published)
             => /\ tcall[p].committed
                /\ tcall[p].task[1].status # tcall[p].prior
      ]_vars

\* an updateTask whose UPDATE found the task already in the requested
\* status, set by a concurrent call after currentTask was read, has
\* committed and is about to publish
C17_Witness ==
    \E p \in Procs :
        /\ tcall[p].at = "updateTask:publish"
        /\ tcall[p].committed
        /\ tcall[p].status # None
        /\ tcall[p].status[1] = tcall[p].prior
        /\ tcall[p].status[1] # tcall[p].currentStatus

(***************************************************************************)
(* Properties of membership requests.                                      *)
(***************************************************************************)
\* slot p passes the checks of the membership operation op
MembershipAdmitted(p, op) ==
    /\ call[p].at = "idle"
    /\ call'[p].at \in {op \o ":selectExisting", op \o ":delete",
                        op \o ":selectTarget"}

\* C21: removeWorkspaceMember by an OWNER on themself never reaches its
\* DELETE: it is answered with UserInputError and workspace_members stays
\* as it is, whether or not the workspace has other OWNERs.
C21_OwnerCannotRemoveSelf ==
    [][/\ \A p \in Procs :
             MembershipAdmitted(p, "removeWorkspaceMember")
                => call'[p].userId # call'[p].requesterId
       /\ (/\ answer'.op = "removeWorkspaceMember"
           /\ answer'.args[2] = answer'.args[3]
           /\ getWorkspaceMemberRole(answer'.args[1], answer'.args[3])
                 = Some("OWNER"))
             => /\ answer'.result = Some("UserInputError")
                /\ UNCHANGED workspace_members
      ]_vars

\* an OWNER of a workspace with a second OWNER has asked to be removed
C21_Witness ==
    /\ answer.op = "removeWorkspaceMember"
    /\ answer.args[2] = answer.args[3]
    /\ answer.result = Some("UserInputError")
    /\ Cardinality({m \in workspace_members :
                       /\ m.workspace_id = answer.args[1]
                       /\ m.role = "OWNER"}) = 2
    /\ getWorkspaceMemberRole(answer.args[1], answer.args[3]) = Some("OWNER")

MembershipOps ==
    {"addWorkspaceMember", "removeWorkspaceMember",
     "updateWorkspaceMemberRole"}

\* the requester of a rejected membership request
RequesterOf(a) == a.args[Len(a.args)]

\* C22: addWorkspaceMember, removeWorkspaceMember and
\* updateWorkspaceMemberRole pass their first check only for a requester
\* who is OWNER of the workspace; for any other requester they are
\* answered with ForbiddenError and workspace_members stays as it is.
C22_OnlyOwnersManageMembers ==
    [][/\ \A p \in Procs : \A op \in MembershipOps :
             MembershipAdmitted(p, op)
                => getWorkspaceMemberRole(call'[p].workspaceId,
                                          call'[p].requesterId)
                      = Some("OWNER")
       /\ (/\ answer'.op \in MembershipOps
           /\ answer'.args # <<>>
           /\ getWorkspaceMemberRole(answer'.args[1], RequesterOf(answer'))
                 # Some("OWNER"))
             => /\ answer'.result = Some("ForbiddenError")
                /\ UNCHANGED workspace_members
      ]_vars

\* a MEMBER of the workspace has asked to add a member
C22_Witness ==
    /\ answer.op = "addWorkspaceMember"
    /\ answer.result = Some("ForbiddenError")
    /\ getWorkspaceMemberRole(answer.args[1], RequesterOf(answer))
          = Some("MEMBER")

\* slot p passes the check of createProject
CreateProjectAdmitted(p) ==
    call[p].at = "idle" /\ call'[p].at = "createProject:insertProject"

\* createProject(w, u) has thrown before its transaction
CreateProjectRefused(a) == a.op = "createProject" /\ Len(a.args) = 2

\* C23: createProject(w, u) goes on to its transaction only when u is
\* MEMBER or OWNER of w at the check; otherwise it is answered with
\* ForbiddenError and projects and project_members stay as they are; every
\* project that becomes visible comes with the PROJECT_LEAD row of its
\* creator.
C23_CreateProjectNeedsMember ==
    [][/\ \A p \in Procs :
             CreateProjectAdmitted(p)
                => getWorkspaceMemberRole(call'[p].workspaceId,
                                          call'[p].requesterId)
                      \in {Some("MEMBER"), Some("OWNER")}
       /\ CreateProjectRefused(answer')
             => /\ getWorkspaceMemberRole(answer'.args[1], answer'.args[2])
                      \notin {Some("MEMBER"), Some("OWNER")}
                /\ answer'.result = Some("ForbiddenError")
                /\ UNCHANGED <<projects, project_members>>
       /\ \A pr \in projects' \ projects :
             [project_id |-> pr.id, user_id |-> pr.created_by,
              role |-> "PROJECT_LEAD"] \in project_members'
      ]_vars

\* a MEMBER of the workspace has created a project and leads it, and a
\* VIEWER has been refused
C23_Witness ==
    /\ CreateProjectRefused(answer)
    /\ getWorkspaceMemberRole(answer.args[1], answer.args[2]) = Some("VIEWER")
    /\ \E pr \in projects :
          /\ getWorkspaceMemberRole(pr.workspace_id, pr.created_by)
                = Some("MEMBER")
          /\ getProjectMemberRole(pr.id, pr.created_by) = Some("PROJECT_LEAD")

(***************************************************************************)
(* Properties of workspace access.                                         *)
(***************************************************************************)
\* C24: in every state, for every workspace w and user u,
\* hasWorkspaceAccess(w, u, OWNER) implies hasWorkspaceAccess(w, u, MEMBER),
\* which implies hasWorkspaceAccess(w, u, VIEWER).
C24_WorkspaceAccessMonotone ==
    \A w \in WorkspaceIds : \A u \in AllUsers :
        /\ hasWorkspaceAccess(w, u, "OWNER")
              => hasWorkspaceAccess(w, u, "MEMBER")
        /\ hasWorkspaceAccess(w, u, "MEMBER")
              => hasWorkspaceAccess(w, u, "VIEWER")

\* the check has answered a MEMBER: no for OWNER, and the workspace has
\* an OWNER and a MEMBER
C24_Witness ==
    /\ answer.op = "hasWorkspaceAccess"
    /\ answer.args[3] = "OWNER"
    /\ answer.result = Some(FALSE)
    /\ hasWorkspaceAccess(answer.args[1], answer.args[2], "MEMBER")
    /\ \E u \in AllUsers :
          hasWorkspaceAccess(answer.args[1], u, "OWNER")

\* user u has no workspace_members row for workspace w
NotAMember(w, u) ==
    \A m \in workspace_members : ~(m.workspace_id = w /\ m.user_id = u)

\* the step makes row m of workspace_members visible on behalf of slot p:
\* the COMMIT of createWorkspace with the OWNER row of its creator, or the
\* INSERT of addWorkspaceMember with the row it was asked for
InsertedByMembershipCall(p, m) ==
    \/ /\ call[p].at = "createWorkspace:commit"
       /\ m.user_id = call[p].requesterId
       /\ m.role = "OWNER"
    \/ /\ call[p].at = "addWorkspaceMember:insert"
       /\ m = [workspace_id |-> call[p].workspaceId,
               user_id |-> call[p].userId, role |-> call[p].role]

\* C25: hasWorkspaceAccess(w, u, min) is false for every minimum role when
\* u has no workspace_members row for w; a row of workspace_members appears
\* only at the COMMIT of createWorkspace (the creator's row) or at the
\* INSERT of an addWorkspaceMember that an OWNER of the workspace issued,
\* and in no step of a read, an access check, a project operation or a
\* task operation.
C25_MembershipIsNeverProvisioned ==
    [][/\ \A w \in WorkspaceIds : \A u \in AllUsers :
             \A min \in WorkspaceRoles :
                NotAMember(w, u) => ~hasWorkspaceAccess(w, u, min)
       /\ \A m \in workspace_members' \ workspace_members :
             \E p \in Procs : InsertedByMembershipCall(p, m)
       /\ \A p \in Procs :
             MembershipAdmitted(p, "addWorkspaceMember")
                => getWorkspaceMemberRole(call'[p].workspaceId,
                                          call'[p].requesterId)
                      = Some("OWNER")
      ]_vars

\* a user who holds a project role and created a task, and whose workspace
\* membership was removed, is refused by the access check
C25_Witness ==
    /\ answer.op = "hasWorkspaceAccess"
    /\ answer.args[3] = "VIEWER"
    /\ answer.result = Some(FALSE)
    /\ NotAMember(answer.args[1], answer.args[2])
    /\ \E pm \in project_members : pm.user_id = answer.args[2]
    /\ \E t \in tasks : t.created_by = answer.args[2]

\* the calls of ProjectService and TaskService that are in progress
ProjectOrTaskStep ==
    \/ \E p \in Procs :
          \/ call[p].at \in {"createProject:insertProject",
                            "createProject:insertLead",
                            "createProject:commit",
                            "updateProjectMemberRole:update"}
          \/ call'[p].at \in {"createProject:insertProject",
                             "updateProjectMemberRole:update"}
          \/ tcall'[p] # tcall[p]
    \/ projects' # projects
    \/ project_members' # project_members

\* C26: no step of createProject, getProject, updateProjectMemberRole,
\* createTask or updateTask changes workspace_members, and a step that
\* leaves workspace_members as it is leaves every result of
\* getWorkspaceMemberRole and hasWorkspaceAccess as it is, whatever it
\* does to project_members.
C26_ProjectRightsNeverElevate ==
    [][/\ ProjectOrTaskStep => workspace_members' = workspace_members
       /\ workspace_members' = workspace_members
             => \A w \in WorkspaceIds : \A u \in AllUsers :
                   /\ getWorkspaceMemberRole(w, u)'
                         = getWorkspaceMemberRole(w, u)
                   /\ \A min \in WorkspaceRoles :
                         hasWorkspaceAccess(w, u, min)'
                            = hasWorkspaceAccess(w, u, min)
      ]_vars

\* a VIEWER of the workspace leads its project and still fails the
\* workspace check for MEMBER
C26_Witness ==
    /\ answer.op = "hasWorkspaceAccess"
    /\ answer.args[3] = "MEMBER"
    /\ answer.result = Some(FALSE)
    /\ getWorkspaceMemberRole(answer.args[1], answer.args[2]) = Some("VIEWER")
    /\ \E pr \in projects :
          /\ pr.workspace_id = answer.args[1]
          /\ getProjectMemberRole(pr.id, answer.args[2]) = Some("PROJECT_LEAD")

\* a refresh token the refresh endpoint has to refuse: missing, malformed
\* or expired, revoked by a logout, replaced by a rotation, or of a user
\* who is BANNED
RefusableRefreshToken(t) ==
    \/ t = None
    \/ ~verifyRefreshToken(t[1], now).ok
    \/ hashRefreshToken(t[1]) \in revokedHashes \cup rotatedHashes
    \/ t[1].userId \in DOMAIN users
           /\ users[t[1].userId].global_status = "BANNED"

\* C27: a refresh request either returns a rotated access/refresh pair and
\* replaces the session's stored hash with the hash of the returned refresh
\* token, or fails with a 401 response and leaves user_devices unchanged;
\* a missing, malformed, expired, revoked, already-rotated or banned-user
\* refresh token is never admitted to the rotation.
C27_RefreshRotatesOrFails ==
    [][/\ (pc["p1"] = "idle" /\ pc'["p1"] = "refresh:updateDevice")
            => ~RefusableRefreshToken(loc'["p1"].refreshToken)
       /\ (resp'.op = "refresh" /\ resp'.status = 200)
            => /\ pc["p1"] = "refresh:updateDevice"
               /\ resp'.tokens # None
               /\ resp'.tokens[1].refreshToken # resp'.presented[1]
               /\ devices' = [devices EXCEPT
                      ![loc["p1"].device].refresh_token_hash =
                          hashRefreshToken(resp'.tokens[1].refreshToken)]
       /\ (resp'.op = "refresh" /\ resp'.status # 200)
            => /\ resp'.status = 401
               /\ resp'.tokens = None
               /\ devices' = devices]_vars

\* a refresh token revoked by a logout has been admitted to the rotation:
\* its hash is held by a later session that is not revoked
C27_Witness ==
    /\ pc["p1"] = "refresh:updateDevice"
    /\ hashRefreshToken(loc["p1"].refreshToken[1]) \in revokedHashes
    /\ ~devices[loc["p1"].device].is_revoked
    /\ \E d \in DeviceIds :
          /\ devices[d].is_revoked
          /\ devices[d].refresh_token_hash =
                 hashRefreshToken(loc["p1"].refreshToken[1])

\* C28: each successful login creates exactly one new user_devices row,
\* owned by the authenticated user, not revoked and holding the hash of the
\* returned refresh token, and updates that user's last_login; a failed
\* login creates no row; right after a successful login
\* validateRefreshToken on the hash of the returned refresh token succeeds
\* for that user.
C28_LoginCreatesOneSession ==
    [][resp'.op = "login" =>
        IF resp'.status = 200
        THEN LET u == resp'.tokens[1].accessToken.userId
                 h == hashRefreshToken(resp'.tokens[1].refreshToken)
             IN  /\ Len(devices') = Len(devices) + 1
                 /\ SubSeq(devices', 1, Len(devices)) = devices
                 /\ devices'[Len(devices')] =
                        [user_id |-> u, refresh_token_hash |-> h,
                         is_revoked |-> FALSE]
                 /\ users' = [users EXCEPT ![u].last_login = now]
                 /\ \A stored \in {h} :
                        \A r \in validateRefreshToken(stored)' :
                            r # None /\ r[1].user.userId = u
        ELSE /\ devices' = devices
             /\ users' = users]_vars

\* a login has succeeded for a user who already had a session, after the
\* clock moved
C28_Witness ==
    /\ resp.op = "login" /\ resp.status = 200
    /\ Len(devices) = 2
    /\ devices[1].user_id = resp.tokens[1].accessToken.userId
    /\ devices[2].refresh_token_hash =
           hashRefreshToken(resp.tokens[1].refreshToken)
    /\ devices[1].refresh_token_hash # devices[2].refresh_token_hash

\* C29: revokeAllUserDevices(u, h) sets is_revoked on every session of u
\* whose stored hash differs from h (on every session of u when h is
\* omitted), leaves the sessions with hash h and all sessions of other
\* users unchanged, and returns the number of sessions it set is_revoked
\* on.  Checked on POST /revoke-all-sessions, where u is the authenticated
\* user and h the hash of the refresh cookie.
C29_RevokeAllUserDevices ==
    [][resp'.op = "revokeAll" =>
        LET u == resp'.identity[1].userId
            omitted == resp'.presented = None
            h == hashRefreshToken(resp'.presented[1])
            others == {d \in DeviceIds :
                          /\ devices[d].user_id = u
                          /\ (omitted \/ devices[d].refresh_token_hash # h)}
        IN  /\ DOMAIN devices' = DOMAIN devices
            /\ \A d \in others :
                   devices'[d] = [devices[d] EXCEPT !.is_revoked = TRUE]
            /\ \A d \in DeviceIds \ others : devices'[d] = devices[d]
            /\ resp'.count = Cardinality(others)
            /\ users' = users]_vars

\* revoke-all-sessions has kept the caller's current session and revoked
\* the caller's other session
C29_Witness ==
    /\ resp.op = "revokeAll" /\ resp.presented # None
    /\ resp.count = 1
    /\ \E d \in DeviceIds :
          /\ devices[d].user_id = resp.identity[1].userId
          /\ devices[d].refresh_token_hash =
                 hashRefreshToken(resp.presented[1])
          /\ ~devices[d].is_revoked
    /\ \E d \in DeviceIds :
          /\ devices[d].user_id = resp.identity[1].userId
          /\ devices[d].is_revoked

\* the sessions holding the hash of refresh token t
SessionsOf(t) ==
    {d \in DeviceIds :
        devices[d].refresh_token_hash = hashRefreshToken(t[1])}

\* C30: logout is idempotent: a logout always answers 200 and leaves the
\* sessions of the presented refresh token revoked and every other row as
\* it was; when those sessions are revoked already, it leaves every
\* user_devices row exactly as it was after the first revocation.
C30_LogoutIsIdempotent ==
    [][resp'.op = "logout" =>
        /\ resp'.status = 200
        /\ DOMAIN devices' = DOMAIN devices
        /\ resp'.presented = None => devices' = devices
        /\ resp'.presented # None =>
              /\ \A d \in SessionsOf(resp'.presented) :
                     devices'[d] = [devices[d] EXCEPT !.is_revoked = TRUE]
              /\ \A d \in DeviceIds \ SessionsOf(resp'.presented) :
                     devices'[d] = devices[d]
              /\ (\A d \in SessionsOf(resp'.presented) :
                      devices[d].is_revoked) => devices' = devices]_vars

\* a logout has been answered for a refresh token whose session, created
\* before the clock moved, is revoked, while the user's later session is
\* still active
C30_Witness ==
    /\ resp.op = "logout" /\ resp.status = 200 /\ resp.presented # None
    /\ ticks > 0
    /\ SessionsOf(resp.presented) = {1}
    /\ devices[1].is_revoked
    /\ Len(devices) = 2
    /\ devices[2].user_id = devices[1].user_id
    /\ ~devices[2].is_revoked

\* the access and refresh tokens this server has issued so far
IssuedAccessTokens == {AccessTokenOf(rt) : rt \in IssuedRefreshTokens}

\* a token signed with the given secret whose lifetime is over
SignedButExpired(token, secret) == token.secret = secret /\ now >= token.exp

\* C31: verifyAccessToken and verifyRefreshToken report a correctly signed
\* but expired token as 'expired' and a badly signed token as 'invalid',
\* and authenticateToken answers 'Token expired' for the former and
\* 'Invalid token' for the latter.
C31_ExpiredIsNotInvalid ==
    /\ \A t \in IssuedAccessTokens \cup {ForgedToken} :
          /\ SignedButExpired(t, "jwtSecret") =>
                /\ verifyAccessToken(t, now).error = "Access token expired"
                /\ authenticateToken("/api/auth/sessions", Some(t),
                                      None).message = "Token expired"
          /\ t.secret # "jwtSecret" =>
                /\ verifyAccessToken(t, now).error = "Invalid access token"
                /\ authenticateToken("/api/auth/sessions", Some(t),
                                      None).message = "Invalid token"
    /\ \A t \in IssuedRefreshTokens \cup {ForgedToken} :
          /\ SignedButExpired(t, "jwtRefreshSecret") =>
                verifyRefreshToken(t, now).error = "Refresh token expired"
          /\ t.secret # "jwtRefreshSecret" =>
                verifyRefreshToken(t, now).error = "Invalid refresh token"

\* the middleware has refused a request while an access token issued by
\* this server is past its lifetime
C31_Witness ==
    /\ resp.op = "authenticateToken" /\ resp.status = 401
    /\ resp.message = "Invalid token"
    /\ \E t \in IssuedAccessTokens : SignedButExpired(t, "jwtSecret")
    /\ \A t \in IssuedRefreshTokens :
          ~SignedButExpired(t, "jwtRefreshSecret")

\* an access token issued by this server, not expired, of a user who is
\* not BANNED
ValidAccessToken(t) ==
    /\ t \in IssuedAccessTokens
    /\ verifyAccessToken(t, now).ok
    /\ users[t.userId].global_status # "BANNED"

\* C32: authenticateToken lets through every request of an existing,
\* non-banned user that carries a valid access token in the accessToken
\* cookie or in the Authorization header, whatever the other channel
\* contains.
C32_EitherChannelAuthenticates ==
    \A t \in IssuedAccessTokens : ValidAccessToken(t) =>
        \A other \in AccessTokenInputs :
            /\ authenticateToken("/api/auth/sessions", Some(t), other).next
            /\ authenticateToken("/api/auth/sessions", other, Some(t)).next

\* the middleware has refused a request as 'Invalid token' while every
\* access token this server has issued is valid
C32_Witness ==
    /\ resp.op = "authenticateToken" /\ resp.status = 401
    /\ resp.message = "Invalid token"
    /\ IssuedAccessTokens # {}
    /\ \A t \in IssuedAccessTokens : ValidAccessToken(t)

\* the OWNER memberships of workspace w
OwnersOf(w) ==
    {m \in workspace_members : m.workspace_id = w.id /\ m.role = "OWNER"}

\* C33: every workspace has exactly one OWNER, its creator: no operation
\* creates a second OWNER membership or promotes a member to OWNER,
\* whatever role is passed to addWorkspaceMember or
\* updateWorkspaceMemberRole.
C33_ExactlyOneOwner ==
    \A w \in workspaces : OwnersOf(w) = {OwnerRow(w)}

\* a membership call has returned and the workspace has an OWNER who is
\* not its creator
C33_Witness ==
    /\ answer.op \in {"addWorkspaceMember", "updateWorkspaceMemberRole"}
    /\ \E w \in workspaces : \E m \in OwnersOf(w) :
          m.user_id # w.created_by

\* how many times statement q was sent on the connection
Issued(log, q) == Cardinality({i \in DOMAIN log : log[i] = q})

\* C34: db.transaction(callback) issues BEGIN and then exactly one of
\* COMMIT (callback returned) or ROLLBACK (callback or COMMIT threw, with
\* the original error rethrown to the caller), never both, and releases
\* the pooled connection exactly once on every exit path, including when
\* BEGIN or ROLLBACK itself fails.
C34_TransactionCommitsOrRollsBack ==
    answer.op = "transaction" =>
        LET log == answer.args[1]
            released == answer.args[2]
            original == answer.args[3]
        IN  /\ log[1] = "BEGIN" /\ Issued(log, "BEGIN") = 1
            /\ Issued(log, "COMMIT") + Issued(log, "ROLLBACK") = 1
            /\ Issued(log, "ROLLBACK") = 1 =>
                  answer.result # None /\ answer.result = original
            /\ Issued(log, "COMMIT") = 1 => answer.result = None
            /\ released = 1

\* a transaction whose callback threw and whose ROLLBACK failed has ended
C34_Witness ==
    /\ answer.op = "transaction"
    /\ answer.args[3] = Some("callback threw")
    /\ answer.result = Some("ROLLBACK failed")

\* u holds the explicit project_members row that lets u update task t
MayUpdateTask(t, u) ==
    \E task \in tasks :
        /\ task.id = t
        /\ \/ [project_id |-> task.project_id, user_id |-> u,
                role |-> "PROJECT_LEAD"] \in project_members
           \/ /\ [project_id |-> task.project_id, user_id |-> u,
                   role |-> "CONTRIBUTOR"] \in project_members
              /\ \/ [task_id |-> t, user_id |-> u] \in task_assignments
                 \/ \A a \in task_assignments : a.task_id # t

\* updateTask in slot p passes its checks and goes on to its transaction
UpdateTaskAdmitted(p) ==
    tcall[p].at = "idle" /\ tcall'[p].at = "updateTask:transaction"

\* updateTask in slot p throws before its transaction
UpdateTaskRefused(p) ==
    /\ tcall[p].at = "idle"
    /\ tcall' = tcall
    /\ answer'.op = "updateTask"
    /\ answer' # answer

\* C35: updateTask succeeds only if the caller holds an explicit
\* PROJECT_LEAD row in the task's project, or an explicit CONTRIBUTOR row
\* while the task is assigned to the caller or has no assignees; an
\* explicit VIEWER and a user with only inherited access are refused with
\* ForbiddenError and nothing is written.
C35_UpdateTaskNeedsExplicitRole ==
    [][\A p \in Procs :
          /\ UpdateTaskAdmitted(p) =>
                MayUpdateTask(tcall'[p].taskId, tcall'[p].userId)
          /\ (UpdateTaskRefused(p) /\ getTaskById(answer'.args[1]) # None
                 /\ ~MayUpdateTask(answer'.args[1], answer'.args[4]))
                => /\ answer'.result = Some("ForbiddenError")
                   /\ UNCHANGED <<tasks, task_assignments, notifications,
                                  project_members>>
      ]_vars

\* a workspace member with no row in the project has been refused by
\* updateTask
C35_Witness ==
    /\ answer.op = "updateTask" /\ Len(answer.args) = 4
    /\ answer.result = Some("ForbiddenError")
    /\ getTaskById(answer.args[1]) # None
    /\ getProjectMemberRole(getTaskById(answer.args[1])[1].project_id,
                            answer.args[4]) = None
    /\ hasWorkspaceAccess(1, answer.args[4], "MEMBER")

\* the project_members rows of user u in project pr
ProjectRowsOf(pr, u) ==
    {m \in project_members : m.project_id = pr /\ m.user_id = u}

\* the INSERT of the getProject call in slot p runs
GetProjectInserts(p) ==
    call[p].at = "getProject:insert" /\ call'[p].at = "idle"

\* C36: getProject(p, u) inserts a project_members row (p, u, VIEWER) only
\* when u has a workspace membership in p's workspace and has no row for
\* (p, u); it never changes the role of an existing row, never yields a
\* second row for the same (p, u), also when getProject calls and a role
\* update run concurrently, and writes nothing for a user without
\* workspace access.
C36_GetProjectProvisionsOnce ==
    [][/\ \A p \in Procs :
            /\ (call[p].at = "idle" /\ call'[p].at = "getProject:memberRole")
                  => /\ getWorkspaceMemberRole(
                            getProjectById(call'[p].projectId)[1].workspace_id,
                            call'[p].userId) # None
                     /\ UNCHANGED tables
            /\ (call[p].at = "getProject:memberRole"
                   /\ call'[p].at = "getProject:insert")
                  => /\ ProjectRowsOf(call[p].projectId, call[p].userId) = {}
                     /\ UNCHANGED tables
            /\ GetProjectInserts(p)
                  => /\ project_members \subseteq project_members'
                     /\ project_members' \ project_members \subseteq
                           {[project_id |-> call[p].projectId,
                             user_id |-> call[p].userId, role |-> "VIEWER"]}
                     /\ project_members' # project_members =>
                           ProjectRowsOf(call[p].projectId,
                                         call[p].userId) = {}
       /\ (answer'.op = "getProject" /\ \A p \in Procs : ~GetProjectInserts(p))
             => UNCHANGED tables
       /\ \A pr \in ProjectIds, u \in AllUsers :
             Cardinality(ProjectRowsOf(pr, u)') <= 1
      ]_vars

\* a getProject call is about to run its INSERT for a user whose row,
\* inserted by a concurrent getProject, has been given another role since
C36_Witness ==
    /\ answer.op = "getProject"
    /\ \E p \in Procs :
          /\ call[p].at = "getProject:insert"
          /\ call[p].userId = answer.args[2]
          /\ \E m \in ProjectRowsOf(call[p].projectId, call[p].userId) :
                m.role = "CONTRIBUTOR"

\* C37: a revoke-all-sessions request never revokes the caller's current
\* session, the session whose refresh token the request presents, even
\* when a refresh of that session rotates its stored hash concurrently
\* with the request.
C37_RevokeAllKeepsCurrentSession ==
    [][\A p \in Procs :
          (pc[p] = "revokeAll:update" /\ pc'[p] = "idle"
              /\ loc[p].device # 0)
             => devices'[loc[p].device].is_revoked =
                   devices[loc[p].device].is_revoked
      ]_vars

\* a revoke-all-sessions request has answered after a refresh replaced the
\* hash of the session whose refresh token the request presented, and that
\* session is revoked
C37_Witness ==
    /\ resp.op = "revokeAll" /\ resp.presented # None
    /\ hashRefreshToken(resp.presented[1]) \notin StoredHashes
    /\ \E d \in DeviceIds :
          /\ devices[d].user_id = resp.identity[1].userId
          /\ devices[d].user_id = resp.presented[1].userId
          /\ devices[d].is_revoked
    /\ Len(devices) = 1

\* C38: once a logout or revoke-all that revokes session s has completed,
\* no refresh request for s returns new tokens afterwards, including a
\* refresh request that validated the hash of s before the revocation and
\* performs its rotation write after it.
C38_NoTokensForRevokedSession ==
    [][\A p \in Procs :
          (pc[p] = "refresh:updateDevice" /\ pc'[p] = "idle"
              /\ resp'.op = "refresh" /\ resp'.tokens # None)
             => ~devices[loc[p].device].is_revoked
      ]_vars

\* a refresh request has returned new tokens for a session that a logout
\* or a revoke-all had revoked before the rotation was written
C38_Witness ==
    /\ resp.op = "refresh" /\ resp.status = 200 /\ resp.tokens # None
    /\ \E d \in DeviceIds :
          /\ devices[d].is_revoked
          /\ devices[d].refresh_token_hash =
                 hashRefreshToken(resp.tokens[1].refreshToken)
          /\ resp.tokens[1].refreshToken # resp.presented[1]
    /\ \A u \in AllUsers : users[u].global_status # "BANNED"

\* C39: banning a user revokes all of that user's sessions, so that after
\* a ban followed by an unban no refresh token issued before the ban
\* validates; this holds for both ban paths, AuthService.banUser and the
\* userBan mutation.
C39_BanRevokesAllSessions ==
    [][\A u \in Users :
          (users[u].global_status # "BANNED"
              /\ users'[u].global_status = "BANNED")
             => \A d \in DOMAIN devices' :
                   devices'[d].user_id = u => devices'[d].is_revoked
      ]_vars

\* a user is BANNED and still has a session that is not revoked
C39_Witness ==
    \E u \in Users :
        /\ users[u].global_status = "BANNED"
        /\ \E d \in DeviceIds :
              devices[d].user_id = u /\ ~devices[d].is_revoked

\* createWorkspace or createProject in slot p ends without returning
CreateCallFails(p) ==
    /\ call[p].at \in {"createWorkspace:insertWorkspace",
                       "createWorkspace:insertOwner",
                       "createWorkspace:commit",
                       "createProject:insertProject",
                       "createProject:insertLead",
                       "createProject:commit"}
    /\ call'[p] = NoCall
    /\ answer'.op \notin {"createWorkspace", "createProject"}

\* createTask in slot p throws
CreateTaskFails(p) ==
    /\ tcall[p].at \in {"createTask:transaction", "createTask:commit",
                        "createTask:publish"}
    /\ tcall'[p].at = "idle"
    /\ answer'.op = "createTask" /\ Len(answer'.args) # 2

\* C40: if createWorkspace, createProject or createTask reports an error
\* to its caller, none of that call's rows (parent entity, root
\* membership, task, assignments, notifications) is persisted; a failure
\* of the audit-log or publish step after the commit never turns a
\* committed write into a reported failure.
C40_ReportedFailureWritesNothing ==
    [][\A p \in Procs :
          /\ CreateCallFails(p) => UNCHANGED tables
          /\ CreateTaskFails(p) =>
                /\ ~tcall[p].committed
                /\ UNCHANGED <<tasks, task_assignments, notifications>>
      ]_vars

\* createTask has thrown and the task it inserted, with its assignment, is
\* in the tables
C40_Witness ==
    /\ answer = Thrown("createTask", <<>>, "Error")
    /\ nextTaskId > 1
    /\ \E t \in tasks : t.id = nextTaskId - 1
    /\ \E a \in task_assignments : a.task_id = nextTaskId - 1
    /\ tcall["p1"].at = "idle"

====
